---- MODULE Spec2Model ----
(***************************************************************************)
(* Daily-recap Slack bot (Backend/index.js): the recap store daily_recaps, *)
(* the handlers that read and write it (/recap, sendPromptsNow,            *)
(* /api/send-recap, open_recap_modal, recap_submit) and the summarizer.    *)
(* Every handler is split at the awaits that touch the store, so that two  *)
(* invocations interleave exactly where the Node event loop lets them.     *)
(***************************************************************************)
EXTENDS Integers, Sequences, FiniteSets, TLC

VARIABLES
  now,           \* wall clock, milliseconds since 00:00:00.000Z of day 0
  daily_recaps,  \* the rows of table daily_recaps
  nextId,        \* id the store gives to the next inserted row
  proc,          \* proc[p]: the handler invocation running in slot p
  sInput,        \* function harness: the arguments and the collaborators' responses
  sOutput,       \* function harness: what the function under study returned
  user_connections,     \* the rows of table user_connections
  connProc,             \* connProc[c]: the connection handler running in slot c
  daily_recap_scripts,  \* the rows of table daily_recap_scripts
  dash                  \* the admin dashboard page: its members and its batch in progress

vars == <<now, daily_recaps, nextId, proc, sInput, sOutput,
          user_connections, connProc, daily_recap_scripts, dash>>

\* the connection store, the script store and the admin dashboard
others == <<user_connections, connProc, daily_recap_scripts, dash>>

-----------------------------------------------------------------------------
(* Bounds of the model *)

MaxDay == 1      \* the clock runs over days 0..MaxDay
MaxRows == 2     \* no handler that may insert starts once this many rows exist
MaxItems == 1    \* longest activity list handed to the summarizer
MaxRepos == 6    \* longest list of repositories drawn shape by shape
MaxEvents == 2   \* longest list of calendar events handed to the /recap filter
MaxMsgs == 2     \* longest list of Slack messages handed to a message filter
MaxMembers == 2  \* most members the admin dashboard shows

-----------------------------------------------------------------------------
(* JavaScript values.  A string is a sequence of one-character strings. *)

JUndef == [t |-> "undefined", s |-> <<>>, n |-> 0, a |-> <<>>]
JNull == [t |-> "null", s |-> <<>>, n |-> 0, a |-> <<>>]
JStr(s) == [t |-> "string", s |-> s, n |-> 0, a |-> <<>>]
JNum(n) == [t |-> "number", s |-> <<>>, n |-> n, a |-> <<>>]
JBool(b) == [t |-> "boolean", s |-> <<>>, n |-> IF b THEN 1 ELSE 0, a |-> <<>>]
JArr(items) == [t |-> "array", s |-> <<>>, n |-> 0, a |-> items]
JObj == [t |-> "object", s |-> <<>>, n |-> 0, a |-> <<>>]

\* ToBoolean: what `v || x` and `!v` test.
Truthy(v) ==
  CASE v.t = "undefined" -> FALSE
    [] v.t = "null" -> FALSE
    [] v.t = "string" -> v.s # <<>>
    [] v.t = "number" -> v.n # 0
    [] v.t = "boolean" -> v.n = 1
    [] OTHER -> TRUE

\* a || b
JsOr(a, b) == IF Truthy(a) THEN a ELSE b

Digit(d) == <<"0", "1", "2", "3", "4", "5", "6", "7", "8", "9">>[d + 1]

RECURSIVE NumToStr(_)
NumToStr(n) == IF n < 10 THEN <<Digit(n)>> ELSE NumToStr(n \div 10) \o <<Digit(n % 10)>>

RECURSIVE Join(_)
\* Array.prototype.join(",") of an array of strings
Join(items) ==
  IF items = <<>> THEN <<>>
  ELSE IF Len(items) = 1 THEN items[1]
  ELSE items[1] \o <<",">> \o Join(Tail(items))

\* String(v)
ToStr(v) ==
  CASE v.t = "undefined" -> <<"u", "n", "d", "e", "f", "i", "n", "e", "d">>
    [] v.t = "null" -> <<"n", "u", "l", "l">>
    [] v.t = "string" -> v.s
    [] v.t = "number" -> NumToStr(v.n)
    [] v.t = "boolean" -> IF v.n = 1 THEN <<"t", "r", "u", "e">> ELSE <<"f", "a", "l", "s", "e">>
    [] v.t = "array" -> Join(v.a)
    [] OTHER -> <<"[", "o", "b", "j", "e", "c", "t", " ", "O", "b", "j", "e", "c", "t", "]">>

IsSpace(c) == c \in {" ", "\n", "\t"}

RECURSIVE TrimStart(_)
TrimStart(s) == IF s # <<>> /\ IsSpace(Head(s)) THEN TrimStart(Tail(s)) ELSE s

RECURSIVE TrimEnd(_)
TrimEnd(s) ==
  IF s # <<>> /\ IsSpace(s[Len(s)]) THEN TrimEnd(SubSeq(s, 1, Len(s) - 1)) ELSE s

\* String.prototype.trim
Trim(s) == TrimEnd(TrimStart(s))

\* obj.f on a plain object: undefined when the field is missing
Get(obj, f) == IF f \in DOMAIN obj THEN obj[f] ELSE JUndef

\* A JavaScript array or null/undefined in its place.
Arr(items) == [nul |-> FALSE, items |-> items]
NoArr == [nul |-> TRUE, items |-> <<>>]

\* !x || x.length === 0
EmptyOrAbsent(x) == x.nul \/ Len(x.items) = 0

-----------------------------------------------------------------------------
(* The summarizer *)

\* The value `null` a function returns in place of a summary.
NullSummary == [isNull |-> TRUE]

SummaryFields == {"progress", "blockers", "plan"}

\* What the chat-completion call does: it throws, or it returns a message whose
\* content JSON.parse rejects, or content that parses to a JSON value: null, an
\* object with the given fields, or a value of another kind (number, string, array).
LlmThrows == [kind |-> "throw", fields |-> <<>>]
LlmUnparsable == [kind |-> "unparsable", fields |-> <<>>]
LlmJsonNull == [kind |-> "jsonnull", fields |-> <<>>]
LlmJsonOther == [kind |-> "jsonother", fields |-> <<>>]
LlmObject(fields) == [kind |-> "object", fields |-> fields]

\* mutant: the fields of the model's object are returned as they came
summarizeActivityMutNoCoerce(commits, slackMessages, calendarEvents, llm) ==
  IF EmptyOrAbsent(commits) /\ EmptyOrAbsent(slackMessages) /\ EmptyOrAbsent(calendarEvents)
  THEN [result |-> NullSummary, llmCalls |-> 0]
  ELSE IF llm.kind \in {"throw", "unparsable", "jsonnull"}
  THEN [result |-> NullSummary, llmCalls |-> 1]
  ELSE [result |-> [f \in DOMAIN llm.fields |-> llm.fields[f]], llmCalls |-> 1]

\* mutant: no empty-input guard
summarizeActivityMutNoGuard(commits, slackMessages, calendarEvents, llm) ==
  IF llm.kind \in {"throw", "unparsable", "jsonnull"}
  THEN [result |-> NullSummary, llmCalls |-> 1]
  ELSE [result |-> [f \in SummaryFields |-> JStr(ToStr(JsOr(Get(llm.fields, f), JStr(<<>>))))],
        llmCalls |-> 1]

\* mutant: a failed model call yields an empty summary instead of null
summarizeActivityMutEmptyOnFail(commits, slackMessages, calendarEvents, llm) ==
  IF EmptyOrAbsent(commits) /\ EmptyOrAbsent(slackMessages) /\ EmptyOrAbsent(calendarEvents)
  THEN [result |-> NullSummary, llmCalls |-> 0]
  ELSE [result |-> [f \in SummaryFields |-> JStr(ToStr(JsOr(Get(llm.fields, f), JStr(<<>>))))],
        llmCalls |-> 1]

\* summarizeActivity(commits, slackMessages, calendarEvents): the returned value and
\* the number of chat-completion requests issued.
summarizeActivity(commits, slackMessages, calendarEvents, llm) ==
  IF EmptyOrAbsent(commits) /\ EmptyOrAbsent(slackMessages) /\ EmptyOrAbsent(calendarEvents)
  THEN [result |-> NullSummary, llmCalls |-> 0]
  ELSE IF llm.kind \in {"throw", "unparsable"}
  THEN \* create() or JSON.parse threw: caught, null
       [result |-> NullSummary, llmCalls |-> 1]
  ELSE IF llm.kind = "jsonnull"
  THEN \* result.progress on null is a TypeError: caught, null
       [result |-> NullSummary, llmCalls |-> 1]
  ELSE [result |-> [f \in SummaryFields |-> JStr(ToStr(JsOr(Get(llm.fields, f), JStr(<<>>))))],
        llmCalls |-> 1]

\* normalizeSummary(summary): a summary, a loaded prefill, or null
normalizeSummary(summary) ==
  IF "isNull" \in DOMAIN summary
  THEN [f \in SummaryFields |-> JStr(<<>>)]
  ELSE [f \in SummaryFields |-> JStr(Trim(ToStr(JsOr(Get(summary, f), JStr(<<>>)))))]

-----------------------------------------------------------------------------
(* Time *)

MsPerDay == 24 * 60 * 60 * 1000

\* "T23:59:59Z": the upper end of every same-day query
DayEndOffset == ((23 * 60 + 59) * 60 + 59) * 1000

\* The instants of a day at which the model lets something happen: 10:00:00.000Z
\* and 23:59:59.500Z.
DayOffsets == {10 * 60 * 60 * 1000, DayEndOffset + 500}

Instants == {d * MsPerDay + o : d \in 0..MaxDay, o \in DayOffsets}

\* new Date().toISOString().split('T')[0], as the number of the UTC day
getTodayDateString(t) == t \div MsPerDay

\* `${today}T00:00:00Z` and `${today}T23:59:59Z` as timestamps
DayStartTs(today) == today * MsPerDay
DayEndTs(today) == today * MsPerDay + DayEndOffset

-----------------------------------------------------------------------------
(* The store *)

Users == {"U1", "U2"}
NoUser == "none"
WorkspaceTeam == "T1"
NULL == "NULL"

\* members of the prompt channel that are not bots, in directory order
ChannelMembers == <<"U1", "U2">>

NoRow == [isNull |-> TRUE]

\* .eq(column, value): PostgREST compares with `=`, which no row satisfies for null
EqFilter(column, value) == value # NULL /\ column = value

\* the rows the same-day filter of saveSummaryToSupabase / loadSummaryFromSupabase selects
TodayRows(userId, teamId, t) ==
  {r \in daily_recaps :
     /\ EqFilter(r.user_id, userId)
     /\ EqFilter(r.team_id, teamId)
     /\ r.submitted_at >= DayStartTs(getTodayDateString(t))
     /\ r.submitted_at < DayEndTs(getTodayDateString(t))}

\* .select("id") ... .single(): data is the one matching row's id, null when the
\* query fails, matches nothing or matches several rows
SelectExistingId(userId, teamId, t, storeOk) ==
  LET m == TodayRows(userId, teamId, t)
  IN IF storeOk /\ Cardinality(m) = 1
     THEN [id |-> (CHOOSE r \in m : TRUE).id]
     ELSE NoRow

NoPrefill == [isNull |-> TRUE]

\* what loadSummaryFromSupabase returns for the row the query selected
LoadedFrom(data) ==
  [progress |-> JsOr(data.progress, JStr(<<>>)),
   blockers |-> JsOr(data.blockers, JStr(<<>>)),
   plan |-> JsOr(data.plan, JStr(<<>>)),
   notes |-> JsOr(data.notes, JStr(<<>>)),
   recap_id |-> JNum(data.id)]

\* loadSummaryFromSupabase: every value it may return (rows with equal
\* submitted_at are ordered as the store pleases)
loadSummaryFromSupabase(userId, teamId, t, storeOk) ==
  LET m == TodayRows(userId, teamId, t)
      newest == {r \in m : \A r2 \in m : r2.submitted_at <= r.submitted_at}
  IN IF ~storeOk \/ m = {}
     THEN {NoPrefill}
     ELSE {LoadedFrom(r) : r \in newest}

\* .update(fields).eq("id", id): the row with that id takes the given fields
UpdateRow(rows, id, fields) ==
  {IF r.id = id THEN [c \in DOMAIN r |-> IF c \in DOMAIN fields THEN fields[c] ELSE r[c]] ELSE r
     : r \in rows}

\* .insert(fields): a new row with a fresh id
InsertRow(rows, id, fields) == rows \cup {[id |-> id] @@ fields}

-----------------------------------------------------------------------------
(* The connection store *)

NoToken == "none"
GoogleTokens == {"g1", "g2"}
GithubTokens == {"h1"}

\* updates of saveUserConnection: the columns a caller sets (the Google callback sets
\* google_tokens, github_connect sets github_token)
GoogleUpdates(tokens) == [google_tokens |-> tokens]
GithubUpdates(token) == [github_token |-> token]
ConnUpdates ==
  {GoogleUpdates(t) : t \in GoogleTokens} \cup {GithubUpdates(t) : t \in GithubTokens}

\* the rows .eq("slack_user_id", slackUserId).eq("team_id", teamId) selects
ConnRows(rows, slackUserId, teamId) ==
  {r \in rows : EqFilter(r.slack_user_id, slackUserId) /\ EqFilter(r.team_id, teamId)}

NoConn == [isNull |-> TRUE]

\* getUserConnection(slackUserId, teamId): the single matching row, or null
getUserConnection(slackUserId, teamId, storeOk) ==
  LET m == ConnRows(user_connections, slackUserId, teamId)
  IN IF storeOk /\ Cardinality(m) = 1 THEN CHOOSE r \in m : TRUE ELSE NoConn

\* mutant: the table has no unique constraint
ViolatesUniqueMutNone(rows, slackUserId, teamId) == FALSE

\* UNIQUE(slack_user_id, team_id): a new row is rejected when a row with the same
\* pair exists (a NULL team_id equals nothing)
ViolatesUnique(rows, slackUserId, teamId) ==
  \E r \in rows : r.slack_user_id = slackUserId /\ teamId # NULL /\ r.team_id = teamId

\* a row with the defaults of the table and the given columns
NewConn(id, slackUserId, teamId, columns) ==
  [c \in {"google_tokens", "github_token"} |->
     IF c \in DOMAIN columns THEN columns[c] ELSE NoToken]
    @@ [id |-> id, slack_user_id |-> slackUserId, team_id |-> teamId]

\* mutant: the update writes a whole row, columns not given fall back to the defaults
UpdateConnMutReplace(rows, slackUserId, teamId, columns) ==
  {IF r \in ConnRows(rows, slackUserId, teamId)
   THEN NewConn(r.id, r.slack_user_id, r.team_id, columns)
   ELSE r : r \in rows}

\* the rows after .update(columns) on the rows of the pair
UpdateConn(rows, slackUserId, teamId, columns) ==
  {IF r \in ConnRows(rows, slackUserId, teamId)
   THEN [c \in DOMAIN r |-> IF c \in DOMAIN columns THEN columns[c] ELSE r[c]]
   ELSE r : r \in rows}

ConnProcs == {"c1", "c2"}

IdleConn == [pc |-> "idle", user |-> NoUser, team |-> NULL, updates |-> <<>>,
             existing |-> NoConn]

\* the Google callback of the backend and github_connect up to saveUserConnection:
\* both have a Slack user id and a team id at hand
ConnectStart(c, slackUserId, teamId, updates) ==
  /\ connProc[c].pc = "idle"
  /\ connProc' = [connProc EXCEPT ![c] =
       [pc |-> "read", user |-> slackUserId, team |-> teamId, updates |-> updates,
        existing |-> NoConn]]
  /\ UNCHANGED <<now, daily_recaps, nextId, proc, sInput, sOutput, user_connections,
                 daily_recap_scripts, dash>>

\* saveUserConnection: const existing = await getUserConnection(...)
ConnRead(c, storeOk) ==
  /\ connProc[c].pc = "read"
  /\ connProc' = [connProc EXCEPT
       ![c].pc = "write",
       ![c].existing = getUserConnection(connProc[c].user, connProc[c].team, storeOk)]
  /\ UNCHANGED <<now, daily_recaps, nextId, proc, sInput, sOutput, user_connections,
                 daily_recap_scripts, dash>>

\* saveUserConnection: the update or the insert, and the return to the caller
ConnWrite(c, storeOk) ==
  /\ connProc[c].pc = "write"
  /\ LET me == connProc[c]
     IN user_connections' =
          IF ~storeOk THEN user_connections
          ELSE IF me.existing # NoConn
          THEN UpdateConn(user_connections, me.user, me.team, me.updates)
          ELSE IF ViolatesUnique(user_connections, me.user, me.team)
          THEN user_connections
          ELSE user_connections \cup
                 {NewConn(Cardinality(user_connections) + 1, me.user, me.team, me.updates)}
  /\ connProc' = [connProc EXCEPT ![c] = IdleConn]
  /\ UNCHANGED <<now, daily_recaps, nextId, proc, sInput, sOutput, daily_recap_scripts, dash>>

\* GET /api/google/callback of the dashboard with a state: one upsert with
\* onConflict "slack_user_id,team_id"
GoogleCallbackUpsert(slackUserId, teamId, tokens, storeOk) ==
  /\ user_connections' =
       IF ~storeOk THEN user_connections
       ELSE IF ViolatesUnique(user_connections, slackUserId, teamId)
       THEN UpdateConn(user_connections, slackUserId, teamId, GoogleUpdates(tokens))
       ELSE user_connections \cup
              {NewConn(Cardinality(user_connections) + 1, slackUserId, teamId,
                       GoogleUpdates(tokens))}
  /\ UNCHANGED <<now, daily_recaps, nextId, proc, sInput, sOutput, connProc,
                 daily_recap_scripts, dash>>

ConnTeams == {WorkspaceTeam}

\* two concurrent connection handlers and the dashboard's callback, store calls free
\* to fail
NextConnect ==
  \/ \E c \in ConnProcs, u \in Users, t \in ConnTeams, updates \in ConnUpdates :
        ConnectStart(c, u, t, updates)
  \/ \E c \in ConnProcs, storeOk \in BOOLEAN : ConnRead(c, storeOk)
  \/ \E c \in ConnProcs, storeOk \in BOOLEAN : ConnWrite(c, storeOk)
  \/ \E u \in Users, t \in ConnTeams, tokens \in GoogleTokens, storeOk \in BOOLEAN :
        GoogleCallbackUpsert(u, t, tokens, storeOk)

-----------------------------------------------------------------------------
(* The Google account email *)

\* an id_token: missing, the empty string, or segments joined by dots, the second
\* of which is the payload
NoIdToken == [present |-> FALSE, parts |-> <<>>]
IdToken(parts) == [present |-> TRUE, parts |-> parts]

\* a payload segment: text that is no JSON once decoded, or the JSON value it holds
NotJson == [json |-> FALSE, value |-> JNull]
Json(value) == [json |-> TRUE, value |-> value]

NoEmail == [found |-> FALSE, email |-> JNull]

\* the try block on tokens.id_token: the email claim of the payload, when the block
\* reaches its return. split('.')[1] of a token without a dot is undefined and
\* JSON.parse of other text throws, as does reading .email of null.
DecodeIdToken(id_token) ==
  IF ~id_token.present \/ id_token.parts = <<>> THEN NoEmail
  ELSE IF Len(id_token.parts) < 2 THEN NoEmail
  ELSE LET payload == id_token.parts[2]
       IN IF ~payload.json \/ payload.value = JNull THEN NoEmail
          ELSE IF Truthy(Get(payload.value, "email"))
          THEN [found |-> TRUE, email |-> payload.value.email]
          ELSE NoEmail

\* oauth2.userinfo.get(): it throws, or answers with data.email or without
UserinfoThrows == [ok |-> FALSE, email |-> JUndef]
Userinfo(email) == [ok |-> TRUE, email |-> email]

\* the outcome of a resolution: what is returned, whether it threw, and how many
\* userinfo requests were made
Resolved(email, threw, apiCalls) == [email |-> email, threw |-> threw, apiCalls |-> apiCalls]

\* mutant: the userinfo request is made first
getUserEmailFromGoogleTokensMutApiFirst(id_token, userinfo) ==
  IF userinfo.ok /\ Truthy(userinfo.email) THEN Resolved(userinfo.email, FALSE, 1)
  ELSE LET decoded == DecodeIdToken(id_token)
       IN Resolved(IF decoded.found THEN decoded.email ELSE JNull, FALSE, 1)

\* getUserEmailFromGoogleTokens(tokens) of the backend
getUserEmailFromGoogleTokens(id_token, userinfo) ==
  LET decoded == DecodeIdToken(id_token)
  IN IF decoded.found THEN Resolved(decoded.email, FALSE, 0)
     ELSE IF userinfo.ok THEN Resolved(JsOr(userinfo.email, JNull), FALSE, 1)
     ELSE Resolved(JNull, FALSE, 1)

\* GoogleCalendarService.getUserEmail(authTokens): a failing request is thrown on
getUserEmail(id_token, userinfo) ==
  LET decoded == DecodeIdToken(id_token)
  IN IF decoded.found THEN Resolved(decoded.email, FALSE, 0)
     ELSE IF userinfo.ok THEN Resolved(JsOr(userinfo.email, JNull), FALSE, 1)
     ELSE Resolved(JNull, TRUE, 1)

\* POST /api/google/exchange-token: the email of its answer
ExchangeTokenEmail(id_token, userinfo) ==
  LET decoded == DecodeIdToken(id_token)
      email == IF decoded.found THEN decoded.email ELSE JNull
  IN IF Truthy(email) THEN Resolved(email, FALSE, 0)
     ELSE IF userinfo.ok THEN Resolved(JsOr(userinfo.email, JNull), FALSE, 1)
     ELSE Resolved(JNull, FALSE, 1)

\* the token sets and userinfo answers the resolution is run on
EmailTexts == {JStr(<<"a">>), JStr(<<"b">>)}
IdTokens ==
  {NoIdToken, IdToken(<<>>), IdToken(<<"h">>), IdToken(<<"h", NotJson, "s">>),
   IdToken(<<"h", Json(JNull), "s">>), IdToken(<<"h", Json([sub |-> JStr(<<"1">>)]), "s">>),
   IdToken(<<"h", Json([email |-> JStr(<<>>)]), "s">>)}
    \cup {IdToken(<<"h", Json([email |-> e]), "s">>) : e \in EmailTexts}
Userinfos == {UserinfoThrows, Userinfo(JUndef)} \cup {Userinfo(e) : e \in EmailTexts}

-----------------------------------------------------------------------------
(* The admin dashboard *)

\* no batch running, no member loaded, nothing reported. batch and attempts are
\* bookkeeping: the members the running or last batch was started for, and how each
\* request to /api/send-notification ended.
IdleDash ==
  [pc |-> "idle", op |-> "none", members |-> <<>>, queue |-> <<>>, batch |-> <<>>,
   attempts |-> <<>>, successCount |-> 0, errorCount |-> 0, script |-> FALSE,
   sentNotifications |-> {}, sentStandUpLinks |-> {}, notificationStatus |-> <<>>]

\* a member row of GET /api/group-members
Member(i, done) == [slackUserId |-> i, hasCompletedRecap |-> done]

\* the member lists the page may hold
MemberLists ==
  UNION {{[i \in 1..n |-> Member(i, flags[i])] : flags \in [1..n -> BOOLEAN]} : n \in 0..MaxMembers}

\* how one request to /api/send-notification ends: response.ok, a response that is
\* not ok, or an exception (fetch rejects, or response.json() cannot parse the body)
SendOutcomes == {"ok", "notOk", "throws"}

\* members.filter((m) => !m.hasCompletedRecap)
RECURSIVE Incomplete(_)
Incomplete(members) ==
  IF members = <<>> THEN <<>>
  ELSE IF ~Head(members).hasCompletedRecap
  THEN <<Head(members)>> \o Incomplete(Tail(members))
  ELSE Incomplete(Tail(members))

\* the status a batch ends with: its type, its text and the counts in the text
BatchStatus(text, successCount, errorCount) ==
  <<IF successCount > 0 THEN "success" ELSE "error", text, successCount>>
    \o (IF errorCount > 0 THEN <<errorCount, "failed">> ELSE <<>>)

\* fetchMembers: the members of the answer, none when the request fails; the marks
\* of the notifications sent are reset
FetchMembers(members, fetchOk) ==
  /\ dash' = IF fetchOk
             THEN [dash EXCEPT !.members = members, !.sentNotifications = {},
                               !.sentStandUpLinks = {}]
             ELSE [dash EXCEPT !.members = <<>>]
  /\ UNCHANGED <<now, daily_recaps, nextId, proc, sInput, sOutput,
                 user_connections, connProc, daily_recap_scripts>>

\* mutant: a request that throws ends the loop
NotifyNextMutAbort(d, outcome) ==
  LET member == Head(d.queue)
      rest == IF outcome = "throws" THEN <<>> ELSE Tail(d.queue)
  IN [d EXCEPT
       !.queue = rest,
       !.attempts = Append(d.attempts, [member |-> member.slackUserId, outcome |-> outcome]),
       !.successCount = IF outcome = "ok" THEN d.successCount + 1 ELSE d.successCount,
       !.errorCount = IF outcome = "ok" THEN d.errorCount ELSE d.errorCount + 1]

\* one iteration of the loop over the members of a batch: the counters after the
\* request to /api/send-notification for the first member of the queue
NotifyNext(d, outcome) ==
  LET member == Head(d.queue)
  IN [d EXCEPT
       !.queue = Tail(d.queue),
       !.attempts = Append(d.attempts, [member |-> member.slackUserId, outcome |-> outcome]),
       !.successCount = IF outcome = "ok" THEN d.successCount + 1 ELSE d.successCount,
       !.errorCount = IF outcome = "ok" THEN d.errorCount ELSE d.errorCount + 1]

\* sendToAll up to its loop
SendToAll(notificationMessage) ==
  /\ dash.pc = "idle"
  /\ LET incompleteMembers == Incomplete(dash.members)
         started == [dash EXCEPT !.op = "sendToAll", !.batch = <<>>, !.attempts = <<>>,
                                 !.successCount = 0, !.errorCount = 0]
     IN dash' =
          IF Trim(notificationMessage) = <<>>
          THEN [started EXCEPT !.notificationStatus = <<"error", "Please enter a notification message">>]
          ELSE IF Len(incompleteMembers) = 0
          THEN [started EXCEPT !.notificationStatus = <<"error", "All members have completed their recap!">>]
          ELSE [started EXCEPT !.pc = "sendToAll", !.queue = incompleteMembers,
                               !.batch = dash.members, !.notificationStatus = <<>>]
  /\ UNCHANGED <<now, daily_recaps, nextId, proc, sInput, sOutput,
                 user_connections, connProc, daily_recap_scripts>>

\* sendToAll: one iteration of its loop, and its report after the last one
SendToAllNext(outcome) ==
  /\ dash.pc = "sendToAll"
  /\ LET d == NotifyNext(dash, outcome)
         marked == IF outcome = "ok"
                   THEN [d EXCEPT !.sentNotifications = @ \cup {Head(dash.queue).slackUserId}]
                   ELSE d
     IN dash' =
          IF d.queue # <<>> THEN marked
          ELSE [marked EXCEPT !.pc = "idle",
                  !.notificationStatus = BatchStatus("Sent", d.successCount, d.errorCount)]
  /\ UNCHANGED <<now, daily_recaps, nextId, proc, sInput, sOutput,
                 user_connections, connProc, daily_recap_scripts>>

\* sendStandUpLinkToAll up to its loop. hasUrl: a team or channel id is entered;
\* script: generateStandupScript returned a script, which it does not when its
\* request fails or finds no recap
SendStandUpLinkToAll(hasUrl, script) ==
  /\ dash.pc = "idle"
  /\ LET started == [dash EXCEPT !.op = "sendStandUpLinkToAll", !.batch = <<>>,
                                 !.attempts = <<>>, !.successCount = 0, !.errorCount = 0]
     IN dash' =
          IF ~hasUrl
          THEN [started EXCEPT !.notificationStatus = <<"error", "Please enter a Team ID or Channel ID first">>]
          ELSE IF Len(dash.members) = 0
          THEN [started EXCEPT !.notificationStatus = <<"error", "No members to send to">>]
          ELSE [started EXCEPT !.pc = "sendStandUp", !.queue = dash.members,
                               !.batch = dash.members, !.script = script,
                               !.notificationStatus = <<>>]
  /\ UNCHANGED <<now, daily_recaps, nextId, proc, sInput, sOutput,
                 user_connections, connProc, daily_recap_scripts>>

\* sendStandUpLinkToAll: one iteration of its loop; after the last one the counts
\* are reported when no script was generated
SendStandUpNext(outcome) ==
  /\ dash.pc = "sendStandUp"
  /\ LET d == NotifyNext(dash, outcome)
         marked == IF outcome = "ok"
                   THEN [d EXCEPT !.sentStandUpLinks = @ \cup {Head(dash.queue).slackUserId}]
                   ELSE d
     IN dash' =
          IF d.queue # <<>> THEN marked
          ELSE IF ~d.script
          THEN [marked EXCEPT !.pc = "idle", !.script = FALSE,
                  !.notificationStatus =
                    BatchStatus("Sent stand up link to", d.successCount, d.errorCount)]
          ELSE [marked EXCEPT !.pc = "idle", !.script = FALSE]
  /\ UNCHANGED <<now, daily_recaps, nextId, proc, sInput, sOutput,
                 user_connections, connProc, daily_recap_scripts>>

\* the notification messages typed into the page: none, blank, a text
NotificationMessages == {<<>>, <<" ">>, <<"h", "i">>}

NextDash ==
  \/ \E members \in MemberLists, fetchOk \in BOOLEAN : FetchMembers(members, fetchOk)
  \/ \E notificationMessage \in NotificationMessages : SendToAll(notificationMessage)
  \/ \E outcome \in SendOutcomes : SendToAllNext(outcome)
  \/ \E hasUrl, script \in BOOLEAN : SendStandUpLinkToAll(hasUrl, script)
  \/ \E outcome \in SendOutcomes : SendStandUpNext(outcome)

-----------------------------------------------------------------------------
(* The script store *)

\* what the script handlers keep of a recap row they have read
RecapSnapshot(row) == [id |-> row.id, user_id |-> row.user_id, progress |-> row.progress]

NoScript == [isNull |-> TRUE]

\* generateScriptForRecap(recap): null when the chat completion fails; the text of a
\* script stands for the recap content it was written from
generateScriptForRecap(recap, scriptOk) ==
  IF ~scriptOk THEN NoScript
  ELSE [recap_id |-> recap.id, user_id |-> recap.user_id, script |-> recap.progress]

\* mutant: the script is inserted, whatever the table holds
UpsertScriptMutInsert(rows, script) ==
  rows \cup {[id |-> Cardinality(rows) + 1, recap_id |-> script.recap_id,
               user_id |-> script.user_id, script_text |-> script.script]}

\* .upsert({recap_id, user_id, script_text}, {onConflict: "recap_id"}) under
\* recap_id REFERENCES daily_recaps(id): the row of that recap_id takes the new
\* columns, a new row is added when there is none, and the store rejects a recap_id
\* that is no row of daily_recaps
UpsertScript(rows, script) ==
  IF ~\E r \in daily_recaps : r.id = script.recap_id
  THEN rows
  ELSE IF \E s \in rows : s.recap_id = script.recap_id
  THEN {IF s.recap_id = script.recap_id
        THEN [s EXCEPT !.user_id = script.user_id, !.script_text = script.script]
        ELSE s : s \in rows}
  ELSE rows \cup {[id |-> Cardinality(rows) + 1, recap_id |-> script.recap_id,
                    user_id |-> script.user_id, script_text |-> script.script]}

-----------------------------------------------------------------------------
(* Handler invocations *)

Procs == {"p1", "p2"}

NoMeta == [isNull |-> TRUE]

IdleProc ==
  [op |-> "idle", pc |-> "idle", user |-> NoUser, team |-> NULL,
   targets |-> <<>>, queue |-> <<>>, summary |-> NullSummary, existing |-> NoRow,
   asked |-> FALSE, allEmpty |-> FALSE, llmCalls |-> 0, llmKind |-> "none", writes |-> 0,
   notice |-> "none", sent |-> <<>>, meta |-> NoMeta, initial |-> <<>>, status |-> 0,
   raced |-> FALSE, saved |-> <<>>, data |-> NoRow, recaps |-> <<>>]

\* bookkeeping, not program state: how the chat-completion request, if one was
\* issued, ended
Issued(s, llm) == IF s.llmCalls = 0 THEN "none" ELSE llm.kind

\* rows the invocation in slot p may still insert
PendingInserts(p) ==
  CASE proc[p].pc \in {"save_read", "save_write"} -> Len(proc[p].queue)
    [] proc[p].pc = "modal_open" -> 1
    [] OTHER -> 0

RECURSIVE SumPending(_)
SumPending(ps) ==
  IF ps = {} THEN 0
  ELSE LET p == CHOOSE q \in ps : TRUE IN PendingInserts(p) + SumPending(ps \ {p})

\* room in the model for k more inserted rows
Room(k) == Cardinality(daily_recaps) + SumPending(Procs) + k <= MaxRows

\* the chat-completion outcomes the handlers are run against
HandlerLlm ==
  {LlmThrows, LlmUnparsable,
   LlmObject([progress |-> JStr(<<"a">>), plan |-> JStr(<<" ", "b">>)]),
   LlmObject([progress |-> JNum(7), blockers |-> JNull, plan |-> JStr(<<>>), extra |-> JObj])}

\* activity lists: absent, empty, or with items
ActivityArrays == {NoArr} \cup {Arr([i \in 1..n |-> i]) : n \in 0..MaxItems}

\* the (commits, slackMessages, calendarEvents) the handlers are run against
Activity(c, s, e) == [commits |-> c, slackMessages |-> s, calendarEvents |-> e]
HandlerActivity ==
  {Activity(Arr(<<>>), Arr(<<>>), Arr(<<>>)),
   Activity(NoArr, NoArr, NoArr),
   Activity(Arr(<<1>>), Arr(<<>>), NoArr),
   Activity(Arr(<<>>), Arr(<<1>>), Arr(<<>>)),
   Activity(NoArr, Arr(<<>>), Arr(<<1>>))}

AllEmpty(act) ==
  /\ EmptyOrAbsent(act.commits)
  /\ EmptyOrAbsent(act.slackMessages)
  /\ EmptyOrAbsent(act.calendarEvents)

\* what a user can leave in the four inputs of the modal
ModalForms ==
  {[Progress |-> JStr(<<"u">>), Blockers |-> JStr(<<"u">>), Plan |-> JStr(<<"u">>),
    Notes |-> JStr(<<"n">>)],
   [Progress |-> JStr(<<"v">>), Blockers |-> JNull, Plan |-> JNull, Notes |-> JNull]}

\* no connection, no connection handler running, no script
InitOthers ==
  /\ user_connections = {}
  /\ connProc = [c \in ConnProcs |-> IdleConn]
  /\ daily_recap_scripts = {}
  /\ dash = IdleDash

Init ==
  /\ now = 10 * 60 * 60 * 1000
  /\ daily_recaps = {}
  /\ nextId = 1
  /\ InitOthers
  /\ proc = [p \in Procs |-> IdleProc]
  /\ sInput = [activity |-> Activity(NoArr, NoArr, NoArr), llm |-> LlmThrows]
  /\ sOutput = [result |-> NullSummary, llmCalls |-> 0]

Tick ==
  /\ \E t \in Instants : t > now /\ now' = t
  /\ UNCHANGED <<daily_recaps, nextId, proc, sInput, sOutput, others>>

\* app.command("/recap") up to the first store access; the collectors return arrays
RecapCommand(p, u, act, llm, postOk, updateOk) ==
  /\ proc[p].op = "idle"
  /\ ~act.commits.nul /\ ~act.slackMessages.nul /\ ~act.calendarEvents.nul
  /\ Room(1)
  /\ LET s == summarizeActivity(act.commits, act.slackMessages, act.calendarEvents, llm)
         base == [IdleProc EXCEPT !.op = "recap", !.user = u, !.team = WorkspaceTeam,
                                  !.targets = <<u>>, !.allEmpty = AllEmpty(act)]
     IN proc' = [proc EXCEPT ![p] =
          IF ~postOk
          THEN \* the loading message could not be posted: the catch block reports
               [base EXCEPT !.pc = "done", !.notice = "failed"]
          ELSE IF s.result = NullSummary
          THEN \* chat.update with the notice; the catch block reports if it throws
               [base EXCEPT !.pc = "done", !.asked = TRUE, !.llmCalls = s.llmCalls, !.llmKind = Issued(s, llm),
                            !.notice = IF updateOk THEN "no_activity" ELSE "failed"]
          ELSE [base EXCEPT !.pc = "save_read", !.queue = <<u>>, !.summary = s.result,
                            !.asked = TRUE, !.llmCalls = s.llmCalls, !.llmKind = Issued(s, llm), !.notice = "loading"]]
  /\ UNCHANGED <<now, daily_recaps, nextId, sInput, sOutput, others>>

\* the (user, team) the invocation in slot q has queried and not yet written
HasReadFor(q, userId, teamId) ==
  /\ proc[q].pc \in {"save_write", "modal_open"}
  /\ proc[q].user = userId
  /\ proc[q].team = teamId

\* bookkeeping, not program state: slot p has just written a row of (userId, teamId),
\* so every other invocation holding an earlier query result for it is overtaken
Overtake(pr, p, userId, teamId) ==
  [q \in Procs |->
     IF q # p /\ HasReadFor(q, userId, teamId) THEN [pr[q] EXCEPT !.raced = TRUE] ELSE pr[q]]

\* saveSummaryToSupabase, the query for today's row
SaveRead(p, storeOk) ==
  /\ proc[p].pc = "save_read"
  /\ proc' = [proc EXCEPT ![p].pc = "save_write",
                          ![p].user = Head(proc[p].queue),
                          ![p].raced = FALSE,
                          ![p].existing =
                             SelectExistingId(Head(proc[p].queue), proc[p].team, now, storeOk)]
  /\ UNCHANGED <<now, daily_recaps, nextId, sInput, sOutput, others>>

\* the fields saveSummaryToSupabase writes on the update path
AiUpdateFields(existing, normalizedSummary) ==
  [progress |-> normalizedSummary.progress,
   blockers |-> normalizedSummary.blockers,
   plan |-> normalizedSummary.plan,
   notes |-> JsOr(Get(existing, "notes"), JNull),
   is_ai_generated |-> TRUE]

\* the fields saveSummaryToSupabase writes on the insert path
AiInsertFields(userId, teamId, t, normalizedSummary) ==
  [user_id |-> userId,
   team_id |-> teamId,
   submitted_at |-> t,
   progress |-> normalizedSummary.progress,
   blockers |-> normalizedSummary.blockers,
   plan |-> normalizedSummary.plan,
   notes |-> JNull,
   is_ai_generated |-> TRUE]

\* what follows a saveSummaryToSupabase call in its caller
AfterSave(pr, updateOk) ==
  IF pr.op = "recap"
  THEN \* chat.update with the "ready" message; the catch block reports if it throws
       [pr EXCEPT !.pc = "done", !.queue = <<>>, !.existing = NoRow,
                  !.saved = Append(pr.saved, pr.user),
                  !.notice = IF updateOk THEN "ready" ELSE "failed"]
  ELSE \* sendPromptsNow: the next user of the save loop, then the prompts
       [pr EXCEPT !.queue = Tail(pr.queue), !.existing = NoRow,
                  !.saved = Append(pr.saved, pr.user),
                  !.pc = IF Tail(pr.queue) = <<>> THEN "prompt_auth" ELSE "save_read"]

\* saveSummaryToSupabase, the update or insert that follows the query
SaveWrite(p, storeOk, updateOk) ==
  /\ proc[p].pc = "save_write"
  /\ LET me == proc[p]
         normalizedSummary == normalizeSummary(me.summary)
         fields == IF me.existing # NoRow
                   THEN AiUpdateFields(me.existing, normalizedSummary)
                   ELSE AiInsertFields(me.user, me.team, now, normalizedSummary)
         done == AfterSave(me, updateOk)
     IN IF ~storeOk
        THEN /\ proc' = [proc EXCEPT ![p] = done]
             /\ UNCHANGED <<daily_recaps, nextId>>
        ELSE /\ IF me.existing # NoRow
                THEN /\ daily_recaps' = UpdateRow(daily_recaps, me.existing.id, fields)
                     /\ nextId' = nextId
                ELSE /\ daily_recaps' = InsertRow(daily_recaps, nextId, fields)
                     /\ nextId' = nextId + 1
             /\ proc' = Overtake(
                  [proc EXCEPT ![p] = [done EXCEPT !.writes = me.writes + 1]],
                  p, me.user, me.team)
  /\ UNCHANGED <<now, sInput, sOutput, others>>

\* x || []
OrEmptyArr(x) == IF x.nul THEN Arr(<<>>) ELSE x

\* authResult.team_id || null, null also when auth.test throws
AuthTeam(authOk) == IF authOk THEN WorkspaceTeam ELSE NULL

\* sendPromptsNow up to the first store access: the target users (target = NoUser is
\* the channel-wide dispatch), the summary of the data the caller passed, the team id
\* for the save loop
sendPromptsNow(p, target, act, llm, authOk, membersOk) ==
  /\ proc[p].op = "idle"
  /\ LET userIds == IF target # NoUser THEN <<target>> ELSE ChannelMembers
         hasFrontendCommits == ~EmptyOrAbsent(act.commits)
         hasFrontendSlackMessages == ~EmptyOrAbsent(act.slackMessages)
         hasFrontendCalendarEvents == ~EmptyOrAbsent(act.calendarEvents)
         s == summarizeActivity(OrEmptyArr(act.commits), OrEmptyArr(act.slackMessages),
                                OrEmptyArr(act.calendarEvents), llm)
         base == [IdleProc EXCEPT !.op = "sendPrompts", !.targets = userIds,
                                  !.allEmpty = AllEmpty(act)]
     IN /\ Room(Len(userIds))
        /\ proc' = [proc EXCEPT ![p] =
             IF target = NoUser /\ ~membersOk
             THEN \* getChannelMembers threw: nothing is sent
                  [base EXCEPT !.pc = "done", !.targets = <<>>]
             ELSE IF hasFrontendCommits \/ hasFrontendSlackMessages \/ hasFrontendCalendarEvents
             THEN IF s.result # NullSummary
                  THEN [base EXCEPT !.pc = "save_read", !.queue = userIds, !.asked = TRUE,
                                    !.summary = s.result, !.llmCalls = s.llmCalls, !.llmKind = Issued(s, llm),
                                    !.team = AuthTeam(authOk)]
                  ELSE [base EXCEPT !.pc = "prompt_auth", !.asked = TRUE,
                                    !.llmCalls = s.llmCalls, !.llmKind = Issued(s, llm)]
             ELSE [base EXCEPT !.pc = "prompt_auth"]]

\* a dispatch by the scheduler or for one resolved user
SendPromptsStart(p, target, act, llm, authOk, membersOk) ==
  /\ sendPromptsNow(p, target, act, llm, authOk, membersOk)
  /\ UNCHANGED <<now, daily_recaps, nextId, sInput, sOutput, others>>

\* String.prototype.toLowerCase over the letters the model uses
LowerOf(c) == CASE c = "A" -> "a" [] c = "B" -> "b" [] OTHER -> c
toLowerCase(text) == [i \in 1..Len(text) |-> LowerOf(text[i])]

\* Array.prototype.find: the first of the accepted indexes, 0 when there is none
FirstOf(accepted) ==
  IF accepted = {} THEN 0 ELSE CHOOSE i \in accepted : \A j \in accepted : i <= j

\* mutant: the emails are compared as they are written
getSlackUserIdFromEmailMutCaseSensitive(email, usersOk, members) ==
  IF ~Truthy(email) \/ ~usersOk \/ members.nul THEN NoUser
  ELSE IF email.t # "string" /\ members.items # <<>> THEN NoUser
  ELSE LET accepts(u) == u.email.t = "string" /\ u.email.s = email.s
           i == FirstOf({j \in 1..Len(members.items) : accepts(members.items[j])})
       IN IF i = 0 THEN NoUser ELSE members.items[i].id

\* getSlackUserIdFromEmail(email): NoUser is null. usersOk: users.list answers;
\* members: result.members. A non-string email makes the comparison throw inside
\* the try block as soon as there is a member to compare with.
getSlackUserIdFromEmail(email, usersOk, members) ==
  IF ~Truthy(email) \/ ~usersOk \/ members.nul THEN NoUser
  ELSE IF email.t # "string" /\ members.items # <<>> THEN NoUser
  ELSE LET accepts(u) == u.email.t = "string" /\ toLowerCase(u.email.s) = toLowerCase(email.s)
           i == FirstOf({j \in 1..Len(members.items) : accepts(members.items[j])})
       IN IF i = 0 THEN NoUser ELSE members.items[i].id

\* what remains of the frontend's Slack messages after the sender filter: the items
\* of the handler model carry no sender, so any number of them may remain
SenderFiltered(slackMessages) ==
  IF EmptyOrAbsent(slackMessages) THEN {OrEmptyArr(slackMessages)}
  ELSE {Arr(SubSeq(slackMessages.items, 1, k)) : k \in 0..Len(slackMessages.items)}

\* POST /api/send-prompts up to the call of sendPromptsNow, for the email and the
\* directory in sInput; sOutput keeps the answer of the lookup.
ApiSendPrompts(p, act, llm, authOk) ==
  LET googleEmail == sInput.googleEmail
      slackUserId == getSlackUserIdFromEmail(googleEmail, sInput.usersOk, sInput.members)
  IN /\ proc[p].op = "idle"
     /\ sOutput' = [slackUserId |-> IF Truthy(googleEmail) THEN slackUserId ELSE NoUser]
     /\ IF ~Truthy(googleEmail)
        THEN proc' = [proc EXCEPT ![p] =
               [IdleProc EXCEPT !.op = "apiSendPrompts", !.pc = "done", !.status = 400]]
        ELSE IF slackUserId = NoUser
        THEN proc' = [proc EXCEPT ![p] =
               [IdleProc EXCEPT !.op = "apiSendPrompts", !.pc = "done", !.status = 404]]
        ELSE \E filteredSlackMessages \in SenderFiltered(act.slackMessages) :
               sendPromptsNow(p, slackUserId,
                              [act EXCEPT !.slackMessages = filteredSlackMessages],
                              llm, authOk, TRUE)
     /\ UNCHANGED <<now, daily_recaps, nextId, sInput, others>>

\* sendPromptsNow: the team id for the prompt loop
PromptAuth(p, authOk) ==
  /\ proc[p].pc = "prompt_auth"
  /\ proc' = [proc EXCEPT ![p].pc = "prompt", ![p].team = AuthTeam(authOk),
                          ![p].queue = proc[p].targets]
  /\ UNCHANGED <<now, daily_recaps, nextId, sInput, sOutput, others>>

\* the presentation sendPromptsNow chooses from what loadSummaryFromSupabase returned
PromptKind(existingSummary) == IF existingSummary # NoPrefill THEN "review" ELSE "write"

\* mutant: a failed send ends the prompt loop
PromptUserMutAbortOnFail(p, storeOk, slackOk) ==
  /\ proc[p].pc = "prompt"
  /\ \E existingSummary \in
          loadSummaryFromSupabase(Head(proc[p].queue), proc[p].team, now, storeOk) :
        proc' = [proc EXCEPT
          ![p].user = Head(proc[p].queue),
          ![p].queue = Tail(proc[p].queue),
          ![p].pc = IF Tail(proc[p].queue) = <<>> \/ ~slackOk THEN "done" ELSE "prompt",
          ![p].sent = Append(proc[p].sent,
               [user |-> Head(proc[p].queue),
                kind |-> IF slackOk THEN PromptKind(existingSummary) ELSE "failed"])]
  /\ UNCHANGED <<now, daily_recaps, nextId, sInput, sOutput, others>>

\* sendPromptsNow: one iteration of the prompt loop
PromptUser(p, storeOk, slackOk) ==
  /\ proc[p].pc = "prompt"
  /\ \E existingSummary \in
          loadSummaryFromSupabase(Head(proc[p].queue), proc[p].team, now, storeOk) :
        proc' = [proc EXCEPT
          ![p].user = Head(proc[p].queue),
          ![p].queue = Tail(proc[p].queue),
          ![p].pc = IF Tail(proc[p].queue) = <<>> THEN "done" ELSE "prompt",
          ![p].sent = Append(proc[p].sent,
               [user |-> Head(proc[p].queue),
                kind |-> IF slackOk THEN PromptKind(existingSummary) ELSE "failed"])]
  /\ UNCHANGED <<now, daily_recaps, nextId, sInput, sOutput, others>>

\* getInitialValue(value): the initial_value of an input, undefined when there is none
getInitialValue(value) ==
  LET strValue == Trim(ToStr(JsOr(value, JStr(<<>>))))
  IN IF Len(strValue) > 0 THEN JStr(strValue) ELSE JUndef

\* app.action("open_recap_modal"): the modal opened for user u
OpenRecapModal(p, u, storeOk) ==
  /\ proc[p].op = "idle"
  /\ Room(1)
  /\ \E loaded \in loadSummaryFromSupabase(u, WorkspaceTeam, now, storeOk) :
        LET prefill == IF loaded # NoPrefill
                       THEN normalizeSummary(loaded)
                       ELSE [progress |-> JStr(<<>>), blockers |-> JStr(<<>>),
                             plan |-> JStr(<<>>), notes |-> JStr(<<>>)]
        IN proc' = [proc EXCEPT ![p] =
             [IdleProc EXCEPT
                !.op = "modal", !.pc = "modal_open", !.user = u, !.team = WorkspaceTeam,
                !.initial =
                   [Progress |-> getInitialValue(prefill.progress),
                    Blockers |-> getInitialValue(prefill.blockers),
                    Plan |-> getInitialValue(prefill.plan),
                    Notes |-> IF loaded # NoPrefill
                              THEN getInitialValue(Get(prefill, "notes"))
                              ELSE JUndef],
                !.meta =
                   [user_id |-> u, team_id |-> WorkspaceTeam, submitted_at |-> now,
                    recap_id |-> IF loaded # NoPrefill
                                 THEN JsOr(Get(prefill, "recap_id"), JNull)
                                 ELSE JNull]]]
  /\ UNCHANGED <<now, daily_recaps, nextId, sInput, sOutput, others>>

\* the row recap_submit builds from the submitted view
RecapData(userId, teamId, meta, form) ==
  [user_id |-> userId,
   team_id |-> teamId,
   submitted_at |-> meta.submitted_at,
   progress |-> JsOr(form.Progress, JStr(<<>>)),
   blockers |-> JsOr(form.Blockers, JStr(<<>>)),
   plan |-> JsOr(form.Plan, JStr(<<>>)),
   notes |-> JsOr(form.Notes, JNull),
   is_ai_generated |-> FALSE]

\* app.view("recap_submit"): the write to daily_recaps and the message to the user
RecapSubmit(p, form, storeOk) ==
  /\ proc[p].pc = "modal_open"
  /\ LET me == proc[p]
         recapId == me.meta.recap_id
         recapData == RecapData(me.user, WorkspaceTeam, me.meta, form)
         found == Truthy(recapId) /\ \E r \in daily_recaps : r.id = recapId.n
         done == [me EXCEPT !.pc = "done", !.meta = NoMeta, !.initial = <<>>]
         id == IF Truthy(recapId) THEN recapId.n ELSE nextId
         script == [done EXCEPT !.pc = "script", !.notice = "saved",
                                !.writes = me.writes + 1,
                                !.data = RecapSnapshot([id |-> id] @@ recapData)]
     IN IF ~storeOk \/ (Truthy(recapId) /\ ~found)
        THEN /\ proc' = [proc EXCEPT ![p] = [done EXCEPT !.notice = "save_failed"]]
             /\ UNCHANGED <<daily_recaps, nextId>>
        ELSE /\ IF Truthy(recapId)
                THEN /\ daily_recaps' = UpdateRow(daily_recaps, recapId.n, recapData)
                     /\ nextId' = nextId
                ELSE /\ daily_recaps' = InsertRow(daily_recaps, nextId, recapData)
                     /\ nextId' = nextId + 1
             /\ proc' = Overtake([proc EXCEPT ![p] = script], p, me.user, WorkspaceTeam)
  /\ UNCHANGED <<now, sInput, sOutput, others>>

\* app.view("recap_submit"): the script generated from the saved row and its upsert
ScriptSave(p, scriptOk, storeOk) ==
  /\ proc[p].pc = "script"
  /\ daily_recap_scripts' =
       LET scriptData == generateScriptForRecap(proc[p].data, scriptOk)
       IN IF scriptData # NoScript /\ storeOk
          THEN UpsertScript(daily_recap_scripts, scriptData)
          ELSE daily_recap_scripts
  /\ proc' = [proc EXCEPT ![p].pc = "done", ![p].data = NoRow]
  /\ UNCHANGED <<now, daily_recaps, nextId, sInput, sOutput, user_connections, connProc, dash>>

\* a list holding the elements of a set, in any order
OrdersOf(rows) == {q \in [1..Cardinality(rows) -> rows] : {q[i] : i \in DOMAIN q} = rows}

\* the recaps POST /api/generate-scripts selects: the one with the given id, or
\* those of today, of the given team when there is one
SelectedRecaps(recap_id, team_id, t) ==
  IF recap_id # 0
  THEN {r \in daily_recaps : r.id = recap_id}
  ELSE {r \in daily_recaps :
          /\ r.submitted_at >= DayStartTs(getTodayDateString(t))
          /\ r.submitted_at < DayEndTs(getTodayDateString(t))
          /\ team_id # NULL => r.team_id = team_id}

\* POST /api/generate-scripts up to the loop over the recaps; recap_id = 0 and
\* team_id = NULL stand for a body without the field
GenerateScriptsStart(p, recap_id, team_id, storeOk) ==
  /\ proc[p].op = "idle"
  /\ \E recaps \in OrdersOf({RecapSnapshot(r) : r \in SelectedRecaps(recap_id, team_id, now)}) :
        proc' = [proc EXCEPT ![p] =
          IF ~storeOk
          THEN [IdleProc EXCEPT !.op = "generateScripts", !.pc = "done", !.status = 500]
          ELSE IF recaps = <<>>
          THEN [IdleProc EXCEPT !.op = "generateScripts", !.pc = "done", !.status = 200]
          ELSE [IdleProc EXCEPT !.op = "generateScripts", !.pc = "scripts",
                                !.recaps = recaps]]
  /\ UNCHANGED <<now, daily_recaps, nextId, sInput, sOutput, others>>

\* POST /api/generate-scripts: one iteration of the loop over the recaps
ScriptNext(p, scriptOk, storeOk) ==
  /\ proc[p].pc = "scripts"
  /\ daily_recap_scripts' =
       LET script == generateScriptForRecap(Head(proc[p].recaps), scriptOk)
       IN IF script # NoScript /\ storeOk
          THEN UpsertScript(daily_recap_scripts, script)
          ELSE daily_recap_scripts
  /\ proc' = [proc EXCEPT
       ![p].recaps = Tail(proc[p].recaps),
       ![p].pc = IF Tail(proc[p].recaps) = <<>> THEN "done" ELSE "scripts",
       ![p].status = IF Tail(proc[p].recaps) = <<>> THEN 200 ELSE 0]
  /\ UNCHANGED <<now, daily_recaps, nextId, sInput, sOutput, user_connections, connProc, dash>>

\* the user closes the modal without saving
CloseModal(p) ==
  /\ proc[p].pc = "modal_open"
  /\ proc' = [proc EXCEPT ![p] = IdleProc]
  /\ UNCHANGED <<now, daily_recaps, nextId, sInput, sOutput, others>>

\* POST /api/send-recap
SendRecap(p, hasEmail, slackUserId, act, llm, slackOk) ==
  /\ proc[p].op = "idle"
  /\ LET s == summarizeActivity(act.commits, OrEmptyArr(act.slackMessages),
                                OrEmptyArr(act.calendarEvents), llm)
         base == [IdleProc EXCEPT !.op = "sendRecap", !.pc = "done", !.user = slackUserId,
                                  !.allEmpty = AllEmpty(act)]
     IN proc' = [proc EXCEPT ![p] =
          IF ~hasEmail \/ EmptyOrAbsent(act.commits)
          THEN [base EXCEPT !.status = 400]
          ELSE IF s.result = NullSummary
          THEN [base EXCEPT !.status = 500, !.asked = TRUE, !.llmCalls = s.llmCalls, !.llmKind = Issued(s, llm)]
          ELSE IF slackUserId # NoUser /\ ~slackOk
          THEN [base EXCEPT !.status = 500, !.asked = TRUE, !.llmCalls = s.llmCalls, !.llmKind = Issued(s, llm),
                            !.summary = s.result]
          ELSE [base EXCEPT !.status = 200, !.asked = TRUE, !.llmCalls = s.llmCalls, !.llmKind = Issued(s, llm),
                            !.summary = s.result,
                            !.sent = IF slackUserId # NoUser
                                     THEN <<[user |-> slackUserId, kind |-> "recap"]>>
                                     ELSE <<>>]]
  /\ UNCHANGED <<now, daily_recaps, nextId, sInput, sOutput, others>>

\* the handler has returned: its slot is free again
Finish(p) ==
  /\ proc[p].pc = "done"
  /\ proc' = [proc EXCEPT ![p] = IdleProc]
  /\ UNCHANGED <<now, daily_recaps, nextId, sInput, sOutput, others>>

-----------------------------------------------------------------------------
(* Specifications *)

\* the user whose recaps the handlers of Spec and SpecFaults work on
RecapUsers == {"U1"}

\* Every handler, run in the slots ps, with the collaborators' calls (store, Slack,
\* auth.test) ending as the set ok allows: {TRUE} when they all succeed, BOOLEAN when
\* each may fail.
Handlers(ps, ok) ==
  \/ \E p \in ps, u \in RecapUsers, act \in HandlerActivity, llm \in HandlerLlm,
        postOk, updateOk \in ok : RecapCommand(p, u, act, llm, postOk, updateOk)
  \/ \E p \in ps, storeOk \in ok : SaveRead(p, storeOk)
  \/ \E p \in ps, storeOk, updateOk \in ok : SaveWrite(p, storeOk, updateOk)
  \/ \E p \in ps, target \in RecapUsers, act \in HandlerActivity, llm \in HandlerLlm,
        authOk \in ok : SendPromptsStart(p, target, act, llm, authOk, TRUE)
  \/ \E p \in ps, authOk \in ok : PromptAuth(p, authOk)
  \/ \E p \in ps, storeOk, slackOk \in ok : PromptUser(p, storeOk, slackOk)
  \/ \E p \in ps, u \in RecapUsers, storeOk \in ok : OpenRecapModal(p, u, storeOk)
  \/ \E p \in ps, form \in ModalForms, storeOk \in ok : RecapSubmit(p, form, storeOk)
  \/ \E p \in ps, scriptOk, storeOk \in ok : ScriptSave(p, scriptOk, storeOk)
  \/ \E p \in ps : CloseModal(p)
  \/ \E p \in ps, hasEmail \in BOOLEAN, slackUserId \in RecapUsers \cup {NoUser},
        act \in HandlerActivity, llm \in HandlerLlm, slackOk \in ok :
        SendRecap(p, hasEmail, slackUserId, act, llm, slackOk)
  \/ \E p \in ps : Finish(p)

Next == Tick \/ Handlers(Procs, {TRUE})

\* two concurrent handler invocations; store, Slack and auth.test calls succeed
Spec == Init /\ [][Next]_vars

NextSeq == Tick \/ Handlers({"p1"}, {TRUE})

\* one handler invocation at a time; store, Slack and auth.test calls succeed
SpecSeq == Init /\ [][NextSeq]_vars

NextFaults == Tick \/ Handlers({"p1"}, BOOLEAN)

\* one handler invocation at a time; store, Slack and auth.test calls may each fail
SpecFaults == Init /\ [][NextFaults]_vars

\* the channel-wide dispatch of sendPromptsNow on its own, every collaborator call
\* free to fail
NextBatch ==
  \/ Tick
  \/ \E act \in HandlerActivity, llm \in HandlerLlm, authOk, membersOk \in BOOLEAN :
        SendPromptsStart("p1", NoUser, act, llm, authOk, membersOk)
  \/ \E storeOk \in BOOLEAN : SaveRead("p1", storeOk)
  \/ \E storeOk \in BOOLEAN : SaveWrite("p1", storeOk, TRUE)
  \/ \E authOk \in BOOLEAN : PromptAuth("p1", authOk)
  \/ \E storeOk, slackOk \in BOOLEAN : PromptUser("p1", storeOk, slackOk)
  \/ Finish("p1")

SpecBatch == Init /\ [][NextBatch]_vars

\* sendPromptsNow for one user at a time while auth.test fails before the save loop;
\* the store answers every call
NextNoTeam ==
  \/ Tick
  \/ \E target \in RecapUsers, act \in HandlerActivity, llm \in HandlerLlm :
        SendPromptsStart("p1", target, act, llm, FALSE, TRUE)
  \/ SaveRead("p1", TRUE)
  \/ SaveWrite("p1", TRUE, TRUE)
  \/ \E authOk \in BOOLEAN : PromptAuth("p1", authOk)
  \/ \E slackOk \in BOOLEAN : PromptUser("p1", TRUE, slackOk)
  \/ Finish("p1")

SpecNoTeam == Init /\ [][NextNoTeam]_vars

\* GET /api/group-members with a channel_id: the set of user ids with a recap of
\* today; recapsOk is whether the query on daily_recaps answers
completedUserIds(slackUserIds, resolvedTeamId, t, recapsOk) ==
  IF ~recapsOk THEN {}
  ELSE {r.user_id : r \in
          {x \in daily_recaps :
             /\ EqFilter(x.team_id, resolvedTeamId)
             /\ x.user_id \in slackUserIds
             /\ x.submitted_at >= DayStartTs(getTodayDateString(t))
             /\ x.submitted_at < DayEndTs(getTodayDateString(t))}}

\* GET /api/group-members with a channel_id: the members of its answer
GroupMembers(channelMembers, resolvedTeamId, t, recapsOk) ==
  [i \in DOMAIN channelMembers |->
     Member(channelMembers[i],
            channelMembers[i] \in completedUserIds({channelMembers[j] : j \in DOMAIN channelMembers},
                                                    resolvedTeamId,
                                                    t, recapsOk))]

\* fetchMembers of the page against the store
LoadGroupMembers(recapsOk) ==
  FetchMembers(GroupMembers(ChannelMembers, WorkspaceTeam, now, recapsOk), TRUE)

\* recaps are generated and submitted while the dashboard loads the members of the
\* channel and sends notifications; every call succeeds
NextBoard ==
  \/ Tick
  \/ \E u \in RecapUsers, act \in HandlerActivity, llm \in HandlerLlm :
        RecapCommand("p1", u, act, llm, TRUE, TRUE)
  \/ SaveRead("p1", TRUE)
  \/ SaveWrite("p1", TRUE, TRUE)
  \/ \E u \in RecapUsers : OpenRecapModal("p1", u, TRUE)
  \/ \E form \in ModalForms : RecapSubmit("p1", form, TRUE)
  \/ ScriptSave("p1", TRUE, TRUE)
  \/ Finish("p1")
  \/ LoadGroupMembers(TRUE)
  \/ SendToAll(<<"h", "i">>)
  \/ \E outcome \in SendOutcomes : SendToAllNext(outcome)

SpecBoard == Init /\ [][NextBoard]_vars

SpecConnect == Init /\ [][NextConnect]_vars

\* the emails the lookup is run with: none, empty, texts, and a number
LookupEmails ==
  {JUndef, JStr(<<>>), JStr(<<"a">>), JStr(<<"a", "b">>), JStr(<<"A", "B">>),
   JStr(<<"b">>), JNum(7)}

\* directory entries: a user with a profile email, or with none
DirectoryMembers ==
  {[id |-> "U1", email |-> JStr(<<"A", "b">>)], [id |-> "U2", email |-> JStr(<<"a", "B">>)],
   [id |-> "U2", email |-> JStr(<<"b">>)], [id |-> "U1", email |-> JUndef]}

Directories ==
  {NoArr, Arr(<<>>)} \cup {Arr(<<m>>) : m \in DirectoryMembers}
    \cup {Arr(<<m1, m2>>) : m1, m2 \in DirectoryMembers}

\* the request bodies and chat-completion outcomes the lookup is followed by
LookupActivity == {Activity(NoArr, NoArr, NoArr), Activity(Arr(<<>>), Arr(<<1>>), NoArr)}
LookupLlm == {LlmThrows, LlmObject([progress |-> JStr(<<"a">>), plan |-> JStr(<<" ", "b">>)])}

\* every email against every directory
InitLookup ==
  /\ now = 10 * 60 * 60 * 1000
  /\ daily_recaps = {}
  /\ nextId = 1
  /\ InitOthers
  /\ proc = [p \in Procs |-> IdleProc]
  /\ sInput \in [googleEmail : LookupEmails, usersOk : BOOLEAN, members : Directories]
  /\ sOutput = [slackUserId |-> NoUser]

\* POST /api/send-prompts, its calls free to fail
NextLookup ==
  \/ Tick
  \/ \E act \in LookupActivity, llm \in LookupLlm, authOk \in BOOLEAN :
        ApiSendPrompts("p1", act, llm, authOk)
  \/ \E storeOk \in BOOLEAN : SaveRead("p1", storeOk)
  \/ \E storeOk, updateOk \in BOOLEAN : SaveWrite("p1", storeOk, updateOk)
  \/ \E authOk \in BOOLEAN : PromptAuth("p1", authOk)
  \/ \E storeOk, slackOk \in BOOLEAN : PromptUser("p1", storeOk, slackOk)
  \/ Finish("p1")

SpecLookup == InitLookup /\ [][NextLookup]_vars

SpecDash == Init /\ [][NextDash]_vars

\* each resolution of the email, on every token set and userinfo answer
InitEmail ==
  /\ now = 10 * 60 * 60 * 1000
  /\ daily_recaps = {}
  /\ nextId = 1
  /\ InitOthers
  /\ proc = [p \in Procs |-> IdleProc]
  /\ sInput \in [id_token : IdTokens, userinfo : Userinfos]
  /\ sOutput = [stage |-> "input"]

ResolveBackend ==
  /\ sOutput.stage = "input"
  /\ sOutput' = [stage |-> "backend"]
                 @@ getUserEmailFromGoogleTokens(sInput.id_token, sInput.userinfo)
  /\ UNCHANGED <<now, daily_recaps, nextId, proc, sInput, others>>

ResolveService ==
  /\ sOutput.stage = "input"
  /\ sOutput' = [stage |-> "service"] @@ getUserEmail(sInput.id_token, sInput.userinfo)
  /\ UNCHANGED <<now, daily_recaps, nextId, proc, sInput, others>>

ResolveExchange ==
  /\ sOutput.stage = "input"
  /\ sOutput' = [stage |-> "exchange"] @@ ExchangeTokenEmail(sInput.id_token, sInput.userinfo)
  /\ UNCHANGED <<now, daily_recaps, nextId, proc, sInput, others>>

NextEmail == ResolveBackend \/ ResolveService \/ ResolveExchange

SpecEmail == InitEmail /\ [][NextEmail]_vars

\* /recap and the modal in both slots, the store free to reject a write
NextRace ==
  \/ Tick
  \/ \E p \in Procs, u \in RecapUsers, act \in HandlerActivity, llm \in HandlerLlm :
        RecapCommand(p, u, act, llm, TRUE, TRUE)
  \/ \E p \in Procs : SaveRead(p, TRUE)
  \/ \E p \in Procs, storeOk \in BOOLEAN : SaveWrite(p, storeOk, TRUE)
  \/ \E p \in Procs, u \in RecapUsers : OpenRecapModal(p, u, TRUE)
  \/ \E p \in Procs, form \in ModalForms, storeOk \in BOOLEAN : RecapSubmit(p, form, storeOk)
  \/ \E p \in Procs : ScriptSave(p, TRUE, TRUE)
  \/ \E p \in Procs : Finish(p)

SpecRace == Init /\ [][NextRace]_vars

\* POST /api/generate-scripts in slot p2, its calls free to fail, beside the handlers
\* that write recaps and scripts in slot p1
NextScripts ==
  \/ Tick
  \/ \E u \in RecapUsers, act \in HandlerActivity, llm \in HandlerLlm :
        RecapCommand("p1", u, act, llm, TRUE, TRUE)
  \/ SaveRead("p1", TRUE)
  \/ SaveWrite("p1", TRUE, TRUE)
  \/ \E u \in RecapUsers : OpenRecapModal("p1", u, TRUE)
  \/ \E form \in ModalForms : RecapSubmit("p1", form, TRUE)
  \/ \E scriptOk, storeOk \in BOOLEAN : ScriptSave("p1", scriptOk, storeOk)
  \/ Finish("p1")
  \/ \E recap_id \in 0..MaxRows, team_id \in {NULL, WorkspaceTeam}, storeOk \in BOOLEAN :
        GenerateScriptsStart("p2", recap_id, team_id, storeOk)
  \/ \E scriptOk, storeOk \in BOOLEAN : ScriptNext("p2", scriptOk, storeOk)
  \/ Finish("p2")

SpecScripts == Init /\ [][NextScripts]_vars

-----------------------------------------------------------------------------
(* The summarizer on its own: every activity triple against every model response, *)
(* and normalizeSummary on every row the modal may be pre-filled from             *)

\* values a field of the model's JSON object may hold
JsonValues ==
  {JNull, JStr(<<>>), JStr(<<"a">>), JStr(<<" ", "b", " ">>), JNum(0), JNum(42),
   JBool(TRUE), JArr(<<>>), JArr(<<<<"x">>, <<"y">>>>), JObj}

\* the JSON objects: any subset of the three fields, an extra field or not
JsonObjects ==
  LET core == UNION {[names -> JsonValues] : names \in SUBSET SummaryFields}
  IN core \cup {o @@ [extra |-> JObj] : o \in core}

LlmOutcomes ==
  {LlmThrows, LlmUnparsable, LlmJsonNull, LlmJsonOther} \cup {LlmObject(o) : o \in JsonObjects}

\* values of a nullable text column
ColumnValues == {JNull, JStr(<<>>), JStr(<<" ", "b", " ">>)}

InitSummarize ==
  /\ now = 10 * 60 * 60 * 1000
  /\ daily_recaps = {}
  /\ nextId = 1
  /\ InitOthers
  /\ proc = [p \in Procs |-> IdleProc]
  /\ \/ sInput \in [activity : {Activity(c, s, e) : c, s, e \in ActivityArrays},
                    llm : LlmOutcomes]
     \/ sInput \in [data : [id : {1}, progress : ColumnValues, blockers : ColumnValues,
                            plan : ColumnValues, notes : ColumnValues]]
  /\ sOutput = [stage |-> "input"]

\* summarizeActivity(commits, slackMessages, calendarEvents) with the defaults of the
\* signature: an absent slackMessages or calendarEvents is []
Summarize ==
  /\ sOutput.stage = "input"
  /\ "llm" \in DOMAIN sInput
  /\ LET r == summarizeActivity(sInput.activity.commits,
                                OrEmptyArr(sInput.activity.slackMessages),
                                OrEmptyArr(sInput.activity.calendarEvents), sInput.llm)
     IN sOutput' = [stage |-> "summarized", result |-> r.result, llmCalls |-> r.llmCalls]
  /\ UNCHANGED <<now, daily_recaps, nextId, proc, sInput, others>>

\* normalizeSummary(summary) as saveSummaryToSupabase applies it to the summary
Normalize ==
  /\ sOutput.stage = "summarized"
  /\ sOutput.result # NullSummary
  /\ sOutput' = [stage |-> "normalized", result |-> sOutput.result,
                 llmCalls |-> sOutput.llmCalls,
                 normalized |-> normalizeSummary(sOutput.result)]
  /\ UNCHANGED <<now, daily_recaps, nextId, proc, sInput, others>>

\* normalizeSummary(prefill) as open_recap_modal applies it to the loaded row
NormalizePrefill ==
  /\ sOutput.stage = "input"
  /\ "data" \in DOMAIN sInput
  /\ sOutput' = [stage |-> "prefill", normalized |-> normalizeSummary(LoadedFrom(sInput.data))]
  /\ UNCHANGED <<now, daily_recaps, nextId, proc, sInput, others>>

NextSummarize == Summarize \/ Normalize \/ NormalizePrefill

SpecSummarize == InitSummarize /\ [][NextSummarize]_vars

-----------------------------------------------------------------------------
(* The collectors.  Instants are seconds since the epoch; a time zone is the     *)
(* number of seconds local time is ahead of UTC.                                 *)

SecPerDay == 24 * 60 * 60

\* date.setHours(0, 0, 0, 0): the instant of local midnight of the date's local day
SetHoursZero(t, tz) == ((t + tz) \div SecPerDay) * SecPerDay - tz

\* yesterday.setDate(yesterday.getDate() - 1) on a local midnight
DayBefore(midnight) == midnight - SecPerDay

\* the two-day test of fetchUserGitHubCommits and /recap on an instant
IsTodayOrYesterday(itemDate, clock, tz) ==
  LET today == SetHoursZero(clock, tz)
      yesterday == DayBefore(today)
      truncated == SetHoursZero(itemDate, tz)
  IN truncated = today \/ truncated = yesterday

\* the instant of a local day and time of day
LocalTime(day, timeOfDay, tz) == day * SecPerDay + timeOfDay - tz

PerPage == 10
ReposToCheck == 20
CommitCap == 50

NoLogin == "none"
userLogin == "alice"

\* one element of a GET /repos/{owner}/{repo}/commits response
Commit(repo, k, author, committer, date) ==
  [repo |-> repo, k |-> k, author |-> author, committer |-> committer, date |-> date]

\* commit.author?.login === userLogin || commit.committer?.login === userLogin
IsUserCommit(commit) == commit.author = userLogin \/ commit.committer = userLogin

\* Array.prototype.sort((a, b) => dateB - dateA): newest first, equal dates in
\* their order of arrival
SortByDateDesc(commits) ==
  LET n == Len(commits)
      Ahead(i) == {j \in 1..n : \/ commits[j].date > commits[i].date
                                \/ commits[j].date = commits[i].date /\ j < i}
  IN [k \in 1..n |-> commits[CHOOSE i \in 1..n : Cardinality(Ahead(i)) = k - 1]]

\* slice(0, n)
Slice(items, n) == SubSeq(items, 1, IF Len(items) < n THEN Len(items) ELSE n)

\* GET /repos/{owner}/{repo}/commits with per_page: 10: the first page of the
\* commits the repository holds for the request, newest first
ListCommits(repo) == Slice(repo.data, PerPage)

\* one iteration of the repository loop: what it pushes onto allCommits
RepoCommits(repo, clock, tz) ==
  IF ~repo.ok
  THEN \* the request threw: caught inside the loop, continue
       <<>>
  ELSE LET userCommits == SelectSeq(ListCommits(repo), IsUserCommit)
       IN SelectSeq(userCommits, LAMBDA c : IsTodayOrYesterday(c.date, clock, tz))

RECURSIVE AllCommits(_, _, _)
AllCommits(repos, clock, tz) ==
  IF repos = <<>> THEN <<>>
  ELSE RepoCommits(Head(repos), clock, tz) \o AllCommits(Tail(repos), clock, tz)

\* mutant: the sorted commits are returned whole
fetchUserGitHubCommitsMutNoCap(hasToken, apiOk, repos, clock, tz) ==
  IF ~hasToken \/ ~apiOk THEN <<>>
  ELSE SortByDateDesc(AllCommits(Slice(repos, ReposToCheck), clock, tz))

\* mutant: a repository whose request throws ends the whole collection
fetchUserGitHubCommitsMutFatal(hasToken, apiOk, repos, clock, tz) ==
  IF ~hasToken \/ ~apiOk \/ \E i \in DOMAIN Slice(repos, ReposToCheck) : ~repos[i].ok
  THEN <<>>
  ELSE Slice(SortByDateDesc(AllCommits(Slice(repos, ReposToCheck), clock, tz)), CommitCap)

\* fetchUserGitHubCommits(slackUserId, teamId): hasToken says whether the user's
\* connection holds a github_token, apiOk whether GET /user and GET /user/repos
\* succeed, repos is the list GET /user/repos returns, each with the outcome of its
\* commits request
fetchUserGitHubCommits(hasToken, apiOk, repos, clock, tz) ==
  IF ~hasToken THEN <<>>
  ELSE IF ~apiOk THEN <<>>
  ELSE LET reposToCheck == Slice(repos, ReposToCheck)
           allCommits == AllCommits(reposToCheck, clock, tz)
           sortedCommits == Slice(SortByDateDesc(allCommits), CommitCap)
       IN sortedCommits

\* the local day the collectors are run on, and the times of day
Today == 10
Zones == {0 - 8 * 60 * 60, 0, 9 * 60 * 60}
TimesOfDay == {0, 10 * 60 * 60, SecPerDay - 1}
Clocks(tz) == {LocalTime(Today, tod, tz) : tod \in TimesOfDay}
Noon == LocalTime(Today, 12 * 60 * 60, 0)

\* instants around the day boundaries: 23:59:59 two days ago, 00:00:00 and
\* 23:59:59 yesterday, 00:00:01 and 23:59:59 today, 00:00:00 tomorrow
ItemTimes(tz) ==
  {LocalTime(Today - 2, SecPerDay - 1, tz), LocalTime(Today - 1, 0, tz),
   LocalTime(Today - 1, SecPerDay - 1, tz), LocalTime(Today, 1, tz),
   LocalTime(Today, SecPerDay - 1, tz), LocalTime(Today + 1, 0, tz)}

\* responses of the commits request of repository i: forbidden, a mixed page, a
\* full page of the user's commits of today
Forbidden == [ok |-> FALSE, data |-> <<>>]
Mixed(i) ==
  [ok |-> TRUE,
   data |-> <<Commit(i, 1, userLogin, userLogin, Noon - 60),
              Commit(i, 2, "bob", "bob", Noon - 120),
              Commit(i, 3, userLogin, userLogin, Noon - 3 * SecPerDay),
              Commit(i, 4, NoLogin, userLogin, Noon - SecPerDay)>>]
Busy(i) ==
  [ok |-> TRUE,
   data |-> [k \in 1..PerPage |-> Commit(i, k, userLogin, NoLogin, Noon - 3600 + i * PerPage + k)]]
\* a repository holding one commit of the user more than a page takes
Crowded(i) ==
  [ok |-> TRUE,
   data |-> [k \in 1..(PerPage + 1) |-> Commit(i, k, userLogin, NoLogin, Noon - k)]]
RepoShape(kind, i) == CASE kind = 1 -> Forbidden [] kind = 2 -> Mixed(i) [] OTHER -> Busy(i)

\* the repository lists: every choice of shapes up to MaxRepos repositories, and
\* one list longer than reposToCheck
RepoLists ==
  UNION {{[i \in 1..n |-> RepoShape(kinds[i], i)] : kinds \in [1..n -> 1..3]} : n \in 0..MaxRepos}
    \cup {[i \in 1..(ReposToCheck + 1) |-> Mixed(i)]}
    \cup {<<Crowded(1), Mixed(2)>>}

GithubInputs ==
  {[kind |-> "github", hasToken |-> TRUE, apiOk |-> TRUE, repos |-> r, clock |-> Noon, tz |-> 0]
     : r \in RepoLists}
  \cup {[kind |-> "github", hasToken |-> h, apiOk |-> a, repos |-> <<Mixed(1)>>,
          clock |-> Noon, tz |-> 0] : h, a \in BOOLEAN}
  \cup UNION {{[kind |-> "github", hasToken |-> TRUE, apiOk |-> TRUE,
                 repos |-> <<[ok |-> TRUE, data |-> <<Commit(1, 1, userLogin, userLogin, d)>>]>>,
                 clock |-> c, tz |-> z] : d \in ItemTimes(z), c \in Clocks(z)} : z \in Zones}

\* a calendar event by its start: a timed event has start.dateTime, an all-day event
\* has start.date, a cancelled one may have neither
TimedEvent(at) == [start |-> "dateTime", at |-> at, day |-> 0]
AllDayEvent(day) == [start |-> "date", at |-> 0, day |-> day]
NoStartEvent == [start |-> "none", at |-> 0, day |-> 0]

\* new Date(event.start.dateTime), an RFC 3339 instant, and new Date(event.start.date),
\* which reads a date without a time as 00:00:00 UTC of that day
EventDate(event) == IF event.start = "dateTime" THEN event.at ELSE event.day * SecPerDay

\* the callback of calendarEvents.filter in /recap
KeepsEvent(event, clock, tz) ==
  /\ event.start # "none"
  /\ IsTodayOrYesterday(EventDate(event), clock, tz)

\* filteredCalendarEvents of /recap
filteredCalendarEvents(calendarEvents, clock, tz) ==
  SelectSeq(calendarEvents, LAMBDA event : KeepsEvent(event, clock, tz))

\* the events the filter is run on
FilterEvents(tz) ==
  {TimedEvent(t) : t \in ItemTimes(tz)}
    \cup {AllDayEvent(d) : d \in (Today - 2)..(Today + 1)}
    \cup {NoStartEvent}

FilterInputs ==
  UNION {{[kind |-> "filter", events |-> e, clock |-> c, tz |-> z]
            : e \in UNION {[1..n -> FilterEvents(z)] : n \in 1..MaxEvents}, c \in Clocks(z)}
           : z \in Zones}

\* an entry of the primary calendar: the event as events.list returns it, and the
\* instant it ends at
CalendarEntry(at) == [event |-> TimedEvent(at), endsAt |-> at + 60 * 60]

MaxResults == 10

\* calendar.events.list({timeMin, maxResults, singleEvents, orderBy: "startTime"}) on
\* a calendar held in start order: the first maxResults of the events that end
\* after timeMin
EventsList(calendar, timeMin) ==
  LET upcoming == SelectSeq(calendar, LAMBDA entry : entry.endsAt > timeMin)
  IN Slice([i \in 1..Len(upcoming) |-> upcoming[i].event], MaxResults)

\* fetchUserCalendarEvents(slackUserId, teamId): hasTokens: the user's connection
\* row holds google_tokens; apiOk: the request succeeds; timeMin is the clock
fetchUserCalendarEvents(hasTokens, apiOk, calendar, clock) ==
  IF ~hasTokens \/ ~apiOk THEN <<>> ELSE EventsList(calendar, clock)

\* starts of calendar entries: the instants around the day boundaries, half an hour
\* before and after the clock
EntryTimes(clock, tz) == ItemTimes(tz) \cup {clock - 30 * 60, clock + 30 * 60}

\* calendars in start order, up to MaxEvents entries, and one of eleven entries
Calendars(clock, tz) ==
  {[i \in 1..(MaxResults + 1) |-> CalendarEntry(clock + 30 * 60)]}
    \cup UNION {{q \in [1..n -> {CalendarEntry(t) : t \in EntryTimes(clock, tz)}] :
                  \A i \in 1..(n - 1) : q[i].event.at <= q[i + 1].event.at}
                 : n \in 0..MaxEvents}

CalendarInputs ==
  UNION {UNION {{[kind |-> "calendar", hasTokens |-> h, apiOk |-> a, calendar |-> cal,
                  clock |-> c, tz |-> z]
                   : h \in BOOLEAN, a \in BOOLEAN, cal \in Calendars(c, z)}
                  : c \in Clocks(z)}
           : z \in Zones}

\* a Slack message as conversations.history returns it: user is missing on some
\* bot messages, subtype is set on system messages
SlackMsg(ts, user, hasSubtype) == [ts |-> ts, user |-> user, subtype |-> hasSubtype]

\* fetchUserSlackMessages(slackUserId, channelId): historyOk says whether
\* conversations.history succeeded, messages is result.messages
fetchUserSlackMessages(slackUserId, historyOk, messages) ==
  IF ~historyOk THEN <<>>
  ELSE IF messages.nul THEN <<>>
  ELSE LET mine == SelectSeq(messages.items,
                             LAMBDA msg : ~msg.subtype /\ msg.user = slackUserId)
       IN [i \in DOMAIN mine |-> [ts |-> mine[i].ts, user |-> mine[i].user]]

\* mutant: /api/send-prompts forwards the messages as they came
filteredSlackMessagesMutAll(slackMessages, slackUserId) ==
  IF slackMessages.nul THEN <<>> ELSE slackMessages.items

\* filteredSlackMessages of POST /api/send-prompts
filteredSlackMessages(slackMessages, slackUserId) ==
  IF slackMessages.nul THEN <<>>
  ELSE IF Len(slackMessages.items) > 0
  THEN SelectSeq(slackMessages.items, LAMBDA msg : msg.user = slackUserId)
  ELSE slackMessages.items

\* the message lists: absent, or up to MaxMsgs messages of U1, U2 or no user, plain
\* or with a subtype, numbered in order
HistoryLimit == 100

\* yesterday = new Date(); yesterday.setDate(yesterday.getDate() - 1): the same
\* local time of day one day earlier, in seconds
OldestTimestamp(clock) == clock - SecPerDay

\* conversations.history({channel, oldest, limit}) on a channel held newest first:
\* the first limit of the messages sent after oldest
ConversationsHistory(channel, oldest) ==
  Slice(SelectSeq(channel, LAMBDA msg : msg.ts > oldest), HistoryLimit)

\* fetchUserSlackMessages(slackUserId, channelId) run at clock on a channel
SlackMessagesAt(slackUserId, channel, clock) ==
  fetchUserSlackMessages(slackUserId, TRUE,
                         Arr(ConversationsHistory(channel, OldestTimestamp(clock))))

\* channels, newest message first: up to MaxMsgs messages sent around the day
\* boundaries or half an hour ago, and one of a hundred and one messages just sent
Channels(clock, tz) ==
  {[i \in 1..(HistoryLimit + 1) |-> SlackMsg(clock - 60, "U1", FALSE)]}
    \cup UNION {{q \in [1..n -> {SlackMsg(t, u, FALSE) :
                                   t \in ItemTimes(tz) \cup {clock - 30 * 60},
                                   u \in Users}] :
                  \A i \in 1..(n - 1) : q[i].ts >= q[i + 1].ts}
                 : n \in 0..MaxMsgs}

ChannelInputs ==
  UNION {UNION {{[kind |-> "channel", slackUserId |-> "U1", channel |-> ch,
                  clock |-> c, tz |-> z] : ch \in Channels(c, z)}
                  : c \in Clocks(z)}
           : z \in Zones}

\* a member of the channel as users.info describes it: is_bot, whether the id
\* starts with "USLACKBOT", and whether the users.info request for it succeeds
ChannelMember(id, is_bot, slackbot, infoOk) ==
  [id |-> id, is_bot |-> is_bot, slackbot |-> slackbot, infoOk |-> infoOk]

RECURSIVE Concat(_)
Concat(pages) == IF pages = <<>> THEN <<>> ELSE Head(pages) \o Concat(Tail(pages))

\* mutant: the first page of conversations.members is all that is read
getChannelMembersMutFirstPage(pages) ==
  LET members == IF pages = <<>> THEN <<>> ELSE Head(pages)
      humanMembers == SelectSeq(members, LAMBDA m : m.infoOk /\ ~m.is_bot /\ ~m.slackbot)
  IN [i \in DOMAIN humanMembers |-> humanMembers[i].id]

\* getChannelMembers(channelId): pages are the answers of conversations.members
\* in cursor order; a member whose users.info request throws is left out
getChannelMembers(pages) ==
  LET members == Concat(pages)
      humanMembers == SelectSeq(members, LAMBDA m : m.infoOk /\ ~m.is_bot /\ ~m.slackbot)
  IN [i \in DOMAIN humanMembers |-> humanMembers[i].id]

\* a human, a bot user, Slackbot; each with a lookup that succeeds or not
MemberShapes(id) ==
  {ChannelMember(id, b, sb, ok) :
     b \in BOOLEAN, sb \in BOOLEAN, ok \in BOOLEAN} \ {ChannelMember(id, TRUE, TRUE, ok) : ok \in BOOLEAN}

\* the channels: up to MaxMembers members, on one page or split over two
PagedChannels ==
  UNION {UNION {{<<SubSeq(ms, 1, k), SubSeq(ms, k + 1, n)>> : k \in 0..n} \cup {<<ms>>}
                  : ms \in {q \in [1..n -> UNION {MemberShapes(i) : i \in 1..n}] :
                              \A i \in 1..n : q[i].id = i}}
           : n \in 0..MaxMembers}

MemberInputs == {[kind |-> "members", pages |-> pages] : pages \in PagedChannels}

MessageLists ==
  {NoArr} \cup
  UNION {{Arr([i \in 1..n |-> SlackMsg(i, who[i], sub[i])])
            : who \in [1..n -> Users \cup {NoUser}], sub \in [1..n -> BOOLEAN]}
           : n \in 0..MaxMsgs}

SlackInputs ==
  {[kind |-> "slack", slackUserId |-> "U1", historyOk |-> h, messages |-> m]
     : h \in BOOLEAN, m \in MessageLists}
  \cup {[kind |-> "forward", slackUserId |-> "U1", messages |-> m] : m \in MessageLists}

InitCollect ==
  /\ now = 10 * 60 * 60 * 1000
  /\ daily_recaps = {}
  /\ nextId = 1
  /\ InitOthers
  /\ proc = [p \in Procs |-> IdleProc]
  /\ sInput \in GithubInputs \cup FilterInputs \cup SlackInputs \cup CalendarInputs
                 \cup ChannelInputs \cup MemberInputs
  /\ sOutput = [stage |-> "input"]

FetchCommits ==
  /\ sOutput.stage = "input"
  /\ sInput.kind = "github"
  /\ sOutput' = [stage |-> "commits",
                 result |-> fetchUserGitHubCommits(sInput.hasToken, sInput.apiOk, sInput.repos,
                                                   sInput.clock, sInput.tz)]
  /\ UNCHANGED <<now, daily_recaps, nextId, proc, sInput, others>>

\* /recap: the two-day filter on the fetched calendar events
FilterCalendarEvents ==
  /\ sOutput.stage = "input"
  /\ sInput.kind = "filter"
  /\ sOutput' = [stage |-> "filtered",
                 result |-> filteredCalendarEvents(sInput.events, sInput.clock, sInput.tz)]
  /\ UNCHANGED <<now, daily_recaps, nextId, proc, sInput, others>>

\* /recap: the calendar events it fetches and those it hands to summarizeActivity
RecapCalendarEvents ==
  /\ sOutput.stage = "input"
  /\ sInput.kind = "calendar"
  /\ LET calendarEvents == fetchUserCalendarEvents(sInput.hasTokens, sInput.apiOk,
                                                  sInput.calendar, sInput.clock)
     IN sOutput' = [stage |-> "recapEvents", fetched |-> calendarEvents,
                    result |-> filteredCalendarEvents(calendarEvents, sInput.clock, sInput.tz)]
  /\ UNCHANGED <<now, daily_recaps, nextId, proc, sInput, others>>

FetchSlackMessages ==
  /\ sOutput.stage = "input"
  /\ sInput.kind = "slack"
  /\ sOutput' = [stage |-> "messages",
                 result |-> fetchUserSlackMessages(sInput.slackUserId, sInput.historyOk,
                                                   sInput.messages)]
  /\ UNCHANGED <<now, daily_recaps, nextId, proc, sInput, others>>

\* fetchUserSlackMessages on a channel, at a time of day
FetchChannelMessages ==
  /\ sOutput.stage = "input"
  /\ sInput.kind = "channel"
  /\ sOutput' = [stage |-> "channelMessages",
                 result |-> SlackMessagesAt(sInput.slackUserId, sInput.channel, sInput.clock)]
  /\ UNCHANGED <<now, daily_recaps, nextId, proc, sInput, others>>

\* sendPromptsNow without a target: the members it will prompt
FetchChannelMembers ==
  /\ sOutput.stage = "input"
  /\ sInput.kind = "members"
  /\ sOutput' = [stage |-> "members", result |-> getChannelMembers(sInput.pages)]
  /\ UNCHANGED <<now, daily_recaps, nextId, proc, sInput, others>>

\* POST /api/send-prompts: the Slack messages it hands to sendPromptsNow
ForwardSlackMessages ==
  /\ sOutput.stage = "input"
  /\ sInput.kind = "forward"
  /\ sOutput' = [stage |-> "forwarded",
                 result |-> filteredSlackMessages(sInput.messages, sInput.slackUserId)]
  /\ UNCHANGED <<now, daily_recaps, nextId, proc, sInput, others>>

NextCollect ==
  \/ FetchCommits
  \/ FilterCalendarEvents
  \/ RecapCalendarEvents
  \/ FetchSlackMessages
  \/ FetchChannelMessages
  \/ FetchChannelMembers
  \/ ForwardSlackMessages

SpecCollect == InitCollect /\ [][NextCollect]_vars

-----------------------------------------------------------------------------
(* Properties *)

\* the UTC calendar day of a timestamp
UtcDay(t) == t \div MsPerDay

\* the rows of key (userId, teamId, day) among rows
KeyRows(rows, userId, teamId, day) ==
  {r \in rows : r.user_id = userId /\ r.team_id = teamId /\ UtcDay(r.submitted_at) = day}

Teams == {WorkspaceTeam, NULL}
Days == 0..MaxDay

\* C1: for every key (user_id, team_id, UTC day) the store holds at most one row,
\* whatever generations, modal openings and submissions have run; a second
\* generation or submission never adds a second row for the key.
C1_OneRowPerKey ==
  \A u \in Users, t \in Teams, d \in Days :
    Cardinality(KeyRows(daily_recaps, u, t, d)) <= 1

\* C2: when saveSummaryToSupabase writes, every row of its (user, team, today) that
\* is_ai_generated = false keeps its progress, blockers and plan.
C2_HumanEditKept ==
  [][\A p \in Procs, updateOk \in BOOLEAN :
       SaveWrite(p, TRUE, updateOk) =>
         \A r \in KeyRows(daily_recaps, proc[p].user, proc[p].team, UtcDay(now)) :
           ~r.is_ai_generated =>
             \E r2 \in daily_recaps' :
               /\ r2.id = r.id
               /\ r2.progress = r.progress
               /\ r2.blockers = r.blockers
               /\ r2.plan = r.plan]_vars

\* C3: when a row of (user, team, today) exists, a recap_submit by that user leaves
\* one of those rows holding the submitted progress, blockers, plan and notes with
\* is_ai_generated = false.
C3_SubmitUpdatesExistingRow ==
  [][\A p \in Procs, form \in ModalForms :
       RecapSubmit(p, form, TRUE) =>
         LET old == KeyRows(daily_recaps, proc[p].user, WorkspaceTeam, UtcDay(now))
             recapData == RecapData(proc[p].user, WorkspaceTeam, proc[p].meta, form)
         IN old # {} =>
              \E r \in old : \E r2 \in daily_recaps' :
                /\ r2.id = r.id
                /\ r2.progress = recapData.progress
                /\ r2.blockers = recapData.blockers
                /\ r2.plan = recapData.plan
                /\ r2.notes = recapData.notes
                /\ ~r2.is_ai_generated]_vars

\* C4: when saveSummaryToSupabase updates the row it found, the row's notes are
\* after the write what they were before it.
C4_AiUpdateKeepsNotes ==
  [][\A p \in Procs, updateOk \in BOOLEAN :
       (SaveWrite(p, TRUE, updateOk) /\ proc[p].existing # NoRow) =>
         \A r \in daily_recaps :
           r.id = proc[p].existing.id =>
             \E r2 \in daily_recaps' : r2.id = r.id /\ r2.notes = r.notes]_vars

\* the lifecycle status of key (userId, teamId, day) derived from the store
Status(rows, userId, teamId, day) ==
  LET k == KeyRows(rows, userId, teamId, day)
  IN IF k = {} THEN "NONE"
     ELSE IF \E r \in k : ~r.is_ai_generated THEN "USER_CONFIRMED"
     ELSE "AI_DRAFTED"

LifecycleSteps ==
  {<<"NONE", "NONE">>, <<"NONE", "AI_DRAFTED">>, <<"AI_DRAFTED", "AI_DRAFTED">>,
   <<"AI_DRAFTED", "USER_CONFIRMED">>, <<"NONE", "USER_CONFIRMED">>,
   <<"USER_CONFIRMED", "USER_CONFIRMED">>}

\* C5: the status of every key only takes the steps of the lifecycle; a key that is
\* USER_CONFIRMED never goes back to AI_DRAFTED or NONE.
C5_Lifecycle ==
  [][\A u \in Users, t \in Teams, d \in Days :
       <<Status(daily_recaps, u, t, d), Status(daily_recaps', u, t, d)>> \in LifecycleSteps]_vars

\* the row of key (userId, teamId, day) is alone and holds the given content
SingleRowWith(rows, userId, teamId, day, fields, isAi) ==
  LET k == KeyRows(rows, userId, teamId, day)
  IN /\ Cardinality(k) = 1
     /\ \A r \in k :
          /\ r.progress = fields.progress
          /\ r.blockers = fields.blockers
          /\ r.plan = fields.plan
          /\ r.is_ai_generated = isAi

\* C6: when an upsert writes after another upsert of the same (user, team) has
\* written between its query and its write, the store then holds a single row for
\* the key, with the content of this last write.
C6_LastWriterWins ==
  [][/\ \A p \in Procs, updateOk \in BOOLEAN :
          (SaveWrite(p, TRUE, updateOk) /\ proc[p].raced) =>
            SingleRowWith(daily_recaps', proc[p].user, proc[p].team, UtcDay(now),
                          normalizeSummary(proc[p].summary), TRUE)
     /\ \A p \in Procs, form \in ModalForms :
          (RecapSubmit(p, form, TRUE) /\ proc[p].raced
             /\ UtcDay(proc[p].meta.submitted_at) = UtcDay(now)) =>
            SingleRowWith(daily_recaps', proc[p].user, WorkspaceTeam, UtcDay(now),
                          RecapData(proc[p].user, WorkspaceTeam, proc[p].meta, form), FALSE)]_vars

\* C7: summarizeActivity returns null without a chat-completion request exactly when
\* the three lists are all empty or absent, and a handler whose activity is all
\* empty issues no request and writes no row.
C7_EmptyInputGuard ==
  \A p \in Procs :
    /\ proc[p].asked =>
         ((proc[p].summary = NullSummary /\ proc[p].llmCalls = 0) <=> proc[p].allEmpty)
    /\ proc[p].allEmpty => (proc[p].llmCalls = 0 /\ proc[p].writes = 0)

\* /recap has ended with the "no activity" notice for an all-empty activity set
C7_Witness ==
  \E p \in Procs :
    /\ proc[p].op = "recap"
    /\ proc[p].pc = "done"
    /\ proc[p].asked
    /\ proc[p].allEmpty
    /\ proc[p].llmCalls = 0
    /\ proc[p].notice = "no_activity"

\* progress, blockers and plan, each a string, and nothing else
IsSummary(x) ==
  /\ DOMAIN x = SummaryFields
  /\ \A f \in SummaryFields : x[f].t = "string"

\* C8: whatever the model returned, a non-null result of summarizeActivity has
\* exactly the fields progress, blockers and plan, each a string, and so has what
\* normalizeSummary makes of it and of a loaded row.
C8_SchemaStability ==
  /\ (sOutput.stage \in {"summarized", "normalized"} /\ sOutput.result # NullSummary)
       => IsSummary(sOutput.result)
  /\ sOutput.stage \in {"normalized", "prefill"} => IsSummary(sOutput.normalized)

\* the model returned a number, an array and no plan: all three came out as strings
C8_Witness ==
  /\ sOutput.stage = "normalized"
  /\ sInput.llm.kind = "object"
  /\ DOMAIN sInput.llm.fields = {"progress", "blockers", "extra"}
  /\ sInput.llm.fields.progress = JNum(42)
  /\ sInput.llm.fields.blockers = JArr(<<<<"x">>, <<"y">>>>)
  /\ sOutput.result.progress = JStr(<<"4", "2">>)
  /\ sOutput.result.blockers = JStr(<<"x", ",", "y">>)
  /\ sOutput.result.plan = JStr(<<>>)

\* the chat-completion request was issued and threw, or returned unparsable JSON
LlmFailed(pr) == pr.llmCalls = 1 /\ pr.llmKind \in {"throw", "unparsable"}

\* C9: when the model call fails or returns unparsable JSON, no row is written and
\* the flow goes on: /recap ends with the notice in place of its loading message,
\* sendPromptsNow goes on to prompt every target user.
C9_LlmFailureIsNoDraft ==
  \A p \in Procs :
    LlmFailed(proc[p]) =>
      /\ proc[p].summary = NullSummary
      /\ proc[p].writes = 0
      /\ proc[p].op = "recap" => (proc[p].pc = "done" /\ proc[p].notice = "no_activity")
      /\ proc[p].op = "sendPrompts" =>
           /\ proc[p].pc \in {"prompt_auth", "prompt", "done"}
           /\ proc[p].pc = "done" =>
                /\ Len(proc[p].sent) = Len(proc[p].targets)
                /\ \A i \in 1..Len(proc[p].targets) :
                     /\ proc[p].sent[i].user = proc[p].targets[i]
                     /\ proc[p].sent[i].kind \in {"review", "write"}

\* sendPromptsNow has ended after a failed model call, its target prompted
C9_Witness ==
  \E p \in Procs :
    /\ LlmFailed(proc[p])
    /\ proc[p].op = "sendPrompts"
    /\ proc[p].pc = "done"
    /\ Len(proc[p].sent) = 1
    /\ proc[p].sent[1].kind = "write"

\* C10: the prompt sent to a user is "Review recap" exactly when a row of that user
\* and the workspace team has submitted_at in the current UTC day.
C10_ReviewIffRowToday ==
  [][\A p \in Procs :
       (PromptUser(p, TRUE, TRUE) /\ proc[p].team = WorkspaceTeam) =>
         (proc'[p].sent[Len(proc'[p].sent)].kind = "review"
            <=> KeyRows(daily_recaps, Head(proc[p].queue), WorkspaceTeam, UtcDay(now)) # {})]_vars

\* the users of a sequence of records with a field user
UsersOf(records) == [i \in 1..Len(records) |-> records[i].user]

\* C11: in a sendPromptsNow run over several users, whichever saves, lookups and
\* sends fail, saveSummaryToSupabase has been called once for each target in order
\* whenever there was a summary, each target has been sent to once in order, and the
\* run comes to its end.
C11_BatchIsolation ==
  \A p \in Procs :
    proc[p].op = "sendPrompts" =>
      /\ proc[p].pc \in {"save_read", "save_write", "prompt_auth", "prompt", "done"}
      /\ (proc[p].pc \in {"prompt_auth", "prompt", "done"} /\ proc[p].summary # NullSummary)
           => proc[p].saved = proc[p].targets
      /\ proc[p].pc = "prompt" =>
           UsersOf(proc[p].sent) \o proc[p].queue = proc[p].targets
      /\ proc[p].pc = "done" => UsersOf(proc[p].sent) = proc[p].targets

\* the send to the first of two users failed, the second was still prompted
C11_Witness ==
  \E p \in Procs :
    /\ proc[p].op = "sendPrompts"
    /\ proc[p].pc = "done"
    /\ proc[p].targets = <<"U1", "U2">>
    /\ proc[p].saved = <<"U1", "U2">>
    /\ proc[p].writes = 1
    /\ Len(proc[p].sent) = 2
    /\ proc[p].sent[1].kind = "failed"
    /\ proc[p].sent[2].kind \in {"review", "write"}

\* the elements of a sequence
Range(items) == {items[i] : i \in DOMAIN items}

\* the commits of the examined repositories whose request succeeded that are the
\* user's and of today or yesterday
QualifyingCommits(in) ==
  UNION {{c \in Range(ListCommits(in.repos[i])) :
            IsUserCommit(c) /\ IsTodayOrYesterday(c.date, in.clock, in.tz)}
           : i \in {j \in DOMAIN in.repos : j <= ReposToCheck /\ in.repos[j].ok}}

LocalDay(t, tz) == (t + tz) \div SecPerDay

\* the calendar day an event starts on: the local day of a timed event's start, the
\* date of an all-day event
EventDay(event, tz) == IF event.start = "dateTime" THEN LocalDay(event.at, tz) ELSE event.day

\* day is the local day of the clock or the day before it
TodayOrYesterday(day, clock, tz) == day \in {LocalDay(clock, tz), LocalDay(clock, tz) - 1}

\* C13: a commit of the user is returned by fetchUserGitHubCommits, and a calendar
\* event with a start is kept by the filter of /recap, exactly when its day is the
\* local day of the clock or the day before, at every time of day.
C13_TwoDayFilter ==
  /\ (sOutput.stage = "commits" /\ sInput.hasToken /\ sInput.apiOk
        /\ Cardinality(QualifyingCommits(sInput)) <= CommitCap) =>
       \A i \in DOMAIN sInput.repos :
         (i <= ReposToCheck /\ sInput.repos[i].ok) =>
           \A c \in Range(ListCommits(sInput.repos[i])) :
             IsUserCommit(c) =>
               (c \in Range(sOutput.result) <=> TodayOrYesterday(LocalDay(c.date, sInput.tz),
                                                                 sInput.clock, sInput.tz))
  /\ sOutput.stage = "filtered" =>
       \A e \in Range(sInput.events) :
         e.start # "none" =>
           (e \in Range(sOutput.result) <=> TodayOrYesterday(EventDay(e, sInput.tz),
                                                             sInput.clock, sInput.tz))

\* every commit returned has the token owner as author or committer
CommitsAreTheUsers ==
  sOutput.stage = "commits" =>
    \A c \in Range(sOutput.result) : c.author = userLogin \/ c.committer = userLogin

\* every message fetchUserSlackMessages returns was sent by the target user and is no
\* system message
FetchedAreTheUsers ==
  sOutput.stage = "messages" =>
    \A m \in Range(sOutput.result) :
      /\ m.user = sInput.slackUserId
      /\ \E src \in Range(sInput.messages.items) :
            src.ts = m.ts /\ src.user = sInput.slackUserId /\ ~src.subtype

\* C14 as stated: returned commits are the token owner's; fetched and forwarded
\* Slack messages are the target user's, system messages (with a subtype) excluded.
C14_ItemsAttributable ==
  /\ CommitsAreTheUsers
  /\ FetchedAreTheUsers
  /\ sOutput.stage = "forwarded" =>
       \A m \in Range(sOutput.result) : m.user = sInput.slackUserId /\ ~m.subtype

\* C14, amended: as stated, except that /api/send-prompts tests the sender only, so
\* a forwarded message is the target user's but may be a system message.
C14_SenderMatches ==
  /\ CommitsAreTheUsers
  /\ FetchedAreTheUsers
  /\ sOutput.stage = "forwarded" =>
       \A m \in Range(sOutput.result) : m.user = sInput.slackUserId

\* /api/send-prompts got a message of U2 and one of U1 and forwarded U1's only
C14_Witness ==
  /\ sOutput.stage = "forwarded"
  /\ ~sInput.messages.nul
  /\ sInput.messages.items = <<SlackMsg(1, "U2", FALSE), SlackMsg(2, "U1", FALSE)>>
  /\ sOutput.result = <<SlackMsg(2, "U1", FALSE)>>

\* C15: whatever saveUserConnection calls and dashboard callbacks interleave, a step
\* leaves at most one row per (slack_user_id, team_id), and for a pair that has a row
\* it leaves that same row in place and adds none.
C15_OneConnectionPerPair ==
  [][\A u \in Users, t \in ConnTeams :
       LET before == ConnRows(user_connections, u, t)
           after == ConnRows(user_connections', u, t)
       IN /\ Cardinality(after) <= 1
          /\ before # {} => {r.id : r \in after} = {r.id : r \in before}]_vars

\* a pair connected Google and then GitHub: one row holds both
C15_Witness ==
  \E r \in user_connections :
    /\ r.slack_user_id = "U1"
    /\ r.team_id = WorkspaceTeam
    /\ r.google_tokens = "g2"
    /\ r.github_token = "h1"
    /\ Cardinality(user_connections) = 2

\* C16: every step leaves at most one script row per recap_id, and a script row it
\* writes refers to a recap row the store holds.
C16_OneScriptPerRecap ==
  [][/\ \A s1, s2 \in daily_recap_scripts' : s1.recap_id = s2.recap_id => s1 = s2
     /\ \A s \in daily_recap_scripts' \ daily_recap_scripts :
          \E r \in daily_recaps : r.id = s.recap_id]_vars

\* the script of a user's recap was written again after an AI regeneration changed
\* the row: the one script row now holds the later text
C16_Witness ==
  \E s \in daily_recap_scripts :
    /\ Cardinality(daily_recap_scripts) = 1
    /\ s.script_text = JStr(<<"7">>)
    /\ \E r \in daily_recaps :
          r.id = s.recap_id /\ r.is_ai_generated /\ r.notes = JNull /\ r.progress = JStr(<<"7">>)
    /\ \E p \in Procs : proc[p].op = "generateScripts" /\ proc[p].pc = "done"

\* two texts that differ at most in the case of their letters
SameLetter(c, d) == c = d \/ {c, d} \in {{"a", "A"}, {"b", "B"}}
EqualIgnoringCase(x, y) == Len(x) = Len(y) /\ \A i \in 1..Len(x) : SameLetter(x[i], y[i])

\* the directory entries whose profile email is the given email, letter case aside
MatchingMembers(email, members) ==
  {i \in 1..Len(members.items) :
     /\ email.t = "string" /\ members.items[i].email.t = "string"
     /\ EqualIgnoringCase(members.items[i].email.s, email.s)}

\* C17: the lookup POST /api/send-prompts starts with answers the id of a directory
\* member whose email is the given one letter case aside, and null exactly when the
\* email is empty, the directory call failed or no member matches; on null the
\* request ends with status 400 or 404, no prompt sent and no recap written.
C17_LookupSoftFailure ==
  [][\A p \in Procs :
       proc[p].op = "idle" /\ proc'[p].op \in {"apiSendPrompts", "sendPrompts"} =>
         LET in == sInput
             id == sOutput'.slackUserId
             matching == MatchingMembers(in.googleEmail, in.members)
         IN /\ id # NoUser => \E i \in matching : in.members.items[i].id = id
            /\ id = NoUser <=> (~Truthy(in.googleEmail) \/ ~in.usersOk \/ matching = {})
            /\ id = NoUser =>
                 /\ proc'[p].op = "apiSendPrompts" /\ proc'[p].status \in {400, 404}
                 /\ proc'[p].pc = "done"
                 /\ proc'[p].sent = <<>> /\ proc'[p].targets = <<>>
                 /\ daily_recaps' = daily_recaps]_vars

\* a request whose email is in the directory in other letters only, behind a member
\* without email, ended in a review prompt to the member found
C17_Witness ==
  /\ proc["p1"].op = "sendPrompts" /\ proc["p1"].pc = "done"
  /\ sInput.googleEmail = JStr(<<"a", "b">>)
  /\ sInput.members = Arr(<<[id |-> "U1", email |-> JUndef], [id |-> "U2", email |-> JStr(<<"a", "B">>)]>>)
  /\ sOutput.slackUserId = "U2"
  /\ proc["p1"].sent = <<[user |-> "U2", kind |-> "review"]>>

\* the slackUserIds of a list of members, in order
IdsOf(members) == [i \in 1..Len(members) |-> members[i].slackUserId]

\* the members of a list without a completed recap, by position
PendingIds(members) ==
  LET idx == {i \in 1..Len(members) : ~members[i].hasCompletedRecap}
      rank(i) == Cardinality({j \in idx : j <= i})
  IN [k \in 1..Cardinality(idx) |-> members[CHOOSE i \in idx : rank(i) = k].slackUserId]

\* how many requests of a batch ended ok
OkAttempts(attempts) == Cardinality({i \in 1..Len(attempts) : attempts[i].outcome = "ok"})

\* C18: while sendToAll runs, the two counters add up to the requests made so far;
\* when it has ended after a loop, one request was made for each member without a
\* completed recap, in order, whatever the earlier requests ended with, and the
\* status shows the number of ok requests and, when not zero, the number of the
\* others.
C18_BatchCounts ==
  dash.op = "sendToAll" /\ dash.batch # <<>> =>
    /\ dash.successCount + dash.errorCount = Len(dash.attempts)
    /\ dash.successCount = OkAttempts(dash.attempts)
    /\ dash.pc = "idle" =>
         /\ [i \in 1..Len(dash.attempts) |-> dash.attempts[i].member] = PendingIds(dash.batch)
         /\ dash.notificationStatus =
              <<IF dash.successCount > 0 THEN "success" ELSE "error", "Sent",
                OkAttempts(dash.attempts)>>
              \o (IF Len(dash.attempts) > OkAttempts(dash.attempts)
                  THEN <<Len(dash.attempts) - OkAttempts(dash.attempts), "failed">>
                  ELSE <<>>)

\* sendToAll has ended for two members without a completed recap: the first request
\* threw, the one for the second member was still made and ended ok
C18_Witness ==
  /\ dash.op = "sendToAll" /\ dash.pc = "idle"
  /\ dash.batch = <<Member(1, FALSE), Member(2, FALSE)>>
  /\ dash.attempts = <<[member |-> 1, outcome |-> "throws"], [member |-> 2, outcome |-> "ok"]>>
  /\ dash.notificationStatus = <<"success", "Sent", 1, 1, "failed">>

\* C19: when the user's calendar is read without error, every event of it that
\* started yesterday, or today before the clock, is among the calendar events /recap
\* hands to summarizeActivity.
C19_PastEventsSummarized ==
  (sOutput.stage = "recapEvents" /\ sInput.hasTokens /\ sInput.apiOk
     /\ Len(sInput.calendar) <= MaxResults) =>
    \A i \in DOMAIN sInput.calendar :
      LET event == sInput.calendar[i].event
      IN (TodayOrYesterday(EventDay(event, sInput.tz), sInput.clock, sInput.tz)
            /\ event.at < sInput.clock) =>
           event \in Range(sOutput.result)

\* C20: when open_recap_modal finds a row of the user and today, the modal it opens
\* has that row's id as recap_id in its private metadata and, for each of progress,
\* blockers, plan and notes the row holds a text in, that text as the initial value.
C20_ModalCarriesRecap ==
  [][\A p \in Procs, u \in Users :
       OpenRecapModal(p, u, TRUE) =>
         LET rows == KeyRows(daily_recaps, u, WorkspaceTeam, UtcDay(now))
             holds(input, value) ==
               (value.t = "string" /\ Trim(value.s) # <<>>) => input = JStr(Trim(value.s))
         IN rows # {} =>
              \E r \in rows :
                /\ proc'[p].meta.recap_id = JNum(r.id)
                /\ holds(proc'[p].initial.Progress, r.progress)
                /\ holds(proc'[p].initial.Blockers, r.blockers)
                /\ holds(proc'[p].initial.Plan, r.plan)
                /\ holds(proc'[p].initial.Notes, r.notes)]_vars

\* C21: every step that changes daily_recaps is taken by an operation that has
\* queried the store for today's row of its (user, team) before, and it inserts
\* exactly when that query found no row.
C21_QueryBeforeWrite ==
  [][daily_recaps' # daily_recaps =>
       \E p \in Procs :
         /\ proc'[p] # proc[p]
         /\ proc[p].pc = "save_write"
         /\ (nextId' # nextId) <=> (proc[p].existing = NoRow)]_vars

\* C22: when the store rejects the insert of an operation whose (user, team) got a
\* row from another operation since it last looked, the operation writes that row
\* as an update in the same step.
C22_RetryAsUpdate ==
  [][\A p \in Procs :
       (/\ proc[p].raced
        /\ \/ proc[p].existing = NoRow /\ \E updateOk \in BOOLEAN : SaveWrite(p, FALSE, updateOk)
           \/ \E form \in ModalForms :
                RecapSubmit(p, form, FALSE) /\ ~Truthy(proc[p].meta.recap_id))
       => daily_recaps' # daily_recaps]_vars

\* the rows of rows whose submitted_at lies in UTC day d
RowsOfDay(rows, d) == {r \in rows : UtcDay(r.submitted_at) = d}

\* C23: no step changes the rows of a UTC day that is over, and no row carries a
\* day that has not begun.
C23_PastDaysFixed ==
  [][\A d \in Days :
       /\ d < UtcDay(now) => RowsOfDay(daily_recaps', d) = RowsOfDay(daily_recaps, d)
       /\ d > UtcDay(now) => RowsOfDay(daily_recaps, d) = {}]_vars

\* C24: a message the user sent yesterday, local time, is returned by
\* fetchUserSlackMessages at whatever time of day it runs.
C24_YesterdaysMessagesReturned ==
  (sOutput.stage = "channelMessages" /\ Len(sInput.channel) <= HistoryLimit) =>
    \A i \in DOMAIN sInput.channel :
      LET msg == sInput.channel[i]
      IN (msg.user = sInput.slackUserId
            /\ LocalDay(msg.ts, sInput.tz) = LocalDay(sInput.clock, sInput.tz) - 1) =>
           [ts |-> msg.ts, user |-> msg.user] \in Range(sOutput.result)

\* C25: the commits returned come from the first 20 repositories, at most 10 from
\* each, at most 50 in all, newest first, none of the collected commits left out
\* being newer than one returned; the Slack messages returned are at most 100 and
\* the calendar events fetched at most 10.
C25_CollectorsBounded ==
  /\ sOutput.stage = "commits" =>
       LET r == sOutput.result
       IN /\ \A c \in Range(r) : c.repo <= ReposToCheck
          /\ \A i \in DOMAIN sInput.repos :
               Cardinality({k \in DOMAIN r : r[k].repo = i}) <= PerPage
          /\ Len(r) <= CommitCap
          /\ \A i, j \in DOMAIN r : i < j => r[i].date >= r[j].date
          /\ (sInput.hasToken /\ sInput.apiOk) =>
               \A c \in QualifyingCommits(sInput) \ Range(r) :
                 \A d \in Range(r) : c.date <= d.date
  /\ sOutput.stage = "channelMessages" => Len(sOutput.result) <= HistoryLimit
  /\ sOutput.stage = "recapEvents" => Len(sOutput.fetched) <= MaxResults

\* six repositories with a full page each: sixty commits collected, fifty returned
C25_Witness ==
  /\ sOutput.stage = "commits"
  /\ Cardinality(QualifyingCommits(sInput)) = 6 * PerPage
  /\ Len(sOutput.result) = CommitCap

\* the email claim of an id_token that has a payload with one
ClaimedEmails(id_token) ==
  {e \in EmailTexts :
     id_token.present /\ Len(id_token.parts) >= 2
       /\ id_token.parts[2] = Json([email |-> e])}

\* C26: when the id_token holds a payload with an email, each of the three
\* resolutions returns that email and has made no userinfo request; otherwise it has
\* made exactly one.
C26_IdTokenFirst ==
  sOutput.stage \in {"backend", "service", "exchange"} =>
    IF ClaimedEmails(sInput.id_token) # {}
    THEN sOutput.email \in ClaimedEmails(sInput.id_token) /\ sOutput.apiCalls = 0
         /\ ~sOutput.threw
    ELSE sOutput.apiCalls = 1

\* the backend resolved the email of the id_token although userinfo would have
\* answered with another one
C26_Witness ==
  /\ sOutput.stage = "backend"
  /\ sInput.id_token = IdToken(<<"h", Json([email |-> JStr(<<"a">>)]), "s">>)
  /\ sInput.userinfo = Userinfo(JStr(<<"b">>))
  /\ sOutput.email = JStr(<<"a">>) /\ sOutput.apiCalls = 0

\* the members on all pages of a channel
AllMembers(pages) == UNION {Range(pages[i]) : i \in DOMAIN pages}

\* a bot user or Slackbot
IsBotAccount(m) == m.is_bot \/ m.slackbot

\* C27 as stated: the targets are exactly the members on all pages that are no bot
\* accounts.
C27_ExactlyTheHumans ==
  sOutput.stage = "members" =>
    Range(sOutput.result) = {m.id : m \in {x \in AllMembers(sInput.pages) : ~IsBotAccount(x)}}

\* C27, amended: no bot account is a target, and the targets are exactly the members
\* on all pages that are no bot accounts and whose users.info request succeeded,
\* each once.
C27_HumansLookedUp ==
  sOutput.stage = "members" =>
    /\ Range(sOutput.result) =
         {m.id : m \in {x \in AllMembers(sInput.pages) : ~IsBotAccount(x) /\ x.infoOk}}
    /\ Cardinality(Range(sOutput.result)) = Len(sOutput.result)
    /\ \A m \in AllMembers(sInput.pages) : IsBotAccount(m) => m.id \notin Range(sOutput.result)

\* a bot on the first page and a human on the second: the human is the one target
C27_Witness ==
  /\ sOutput.stage = "members"
  /\ sInput.pages = <<<<ChannelMember(1, TRUE, FALSE, TRUE)>>, <<ChannelMember(2, FALSE, FALSE, TRUE)>>>>
  /\ sOutput.result = <<2>>

\* C28: also for a null team_id, a generation that finds a row of its (user, team,
\* today) in the store adds no row for that key.
C28_NullTeamOneRow ==
  [][\A p \in Procs :
       (/\ proc[p].pc = "save_write"
        /\ proc'[p] # proc[p]
        /\ proc[p].team = NULL
        /\ KeyRows(daily_recaps, proc[p].user, NULL, UtcDay(now)) # {})
       => Cardinality(KeyRows(daily_recaps', proc[p].user, NULL, UtcDay(now)))
            = Cardinality(KeyRows(daily_recaps, proc[p].user, NULL, UtcDay(now)))]_vars

\* the row of rows with the id of r keeps column c of r
KeepsColumn(rows, r, c) == \E r2 \in rows : r2.id = r.id /\ r2[c] = r[c]

\* C29: a saveUserConnection write that carries a GitHub token leaves google_tokens of
\* every row as it was, one that carries Google tokens leaves github_token of every row
\* as it was, and so does the upsert of the dashboard's Google callback.
C29_OtherServiceKept ==
  [][\A r \in user_connections :
       /\ \A c \in ConnProcs :
            (connProc[c].pc = "write" /\ connProc'[c] # connProc[c]) =>
              /\ "github_token" \in DOMAIN connProc[c].updates =>
                    KeepsColumn(user_connections', r, "google_tokens")
              /\ "google_tokens" \in DOMAIN connProc[c].updates =>
                    KeepsColumn(user_connections', r, "github_token")
       /\ connProc' = connProc => KeepsColumn(user_connections', r, "github_token")]_vars

\* U2 connected both services, one row holds the first Google tokens and the GitHub
\* token
C29_Witness ==
  /\ \E r \in user_connections :
       /\ r.slack_user_id = "U2"
       /\ r.google_tokens = "g1"
       /\ r.github_token = "h1"
  /\ \A c \in ConnProcs : connProc[c].pc = "idle"

\* C30: when the dashboard loads the members, hasCompletedRecap of a member is true
\* exactly when daily_recaps holds a row of the member and the team with submitted_at
\* in the current UTC day, draft or submission; and sendToAll queues exactly the
\* members whose hasCompletedRecap is false.
C30_CompletedIffRowToday ==
  [][/\ LoadGroupMembers(TRUE) =>
          \A i \in DOMAIN dash'.members :
            dash'.members[i].hasCompletedRecap <=>
              KeyRows(daily_recaps, dash'.members[i].slackUserId, WorkspaceTeam,
                      UtcDay(now)) # {}
     /\ (SendToAll(<<"h", "i">>) /\ dash'.pc = "sendToAll") =>
          Range(dash'.queue) = {m \in Range(dash.members) : ~m.hasCompletedRecap}]_vars

====
